---- MODULE Spec2Model ----
(***************************************************************************)
(* Call session engine of flowsync-voice-v5: the per-call questionnaire    *)
(* state machine, the issue finalizer with its two timers, the reply timer *)
(* and the audio/session relay with its teardown.                          *)
(*                                                                         *)
(* Text is a sequence of one-character strings, so that trimming,          *)
(* normalisation and substring tests are computed, not assumed.            *)
(* Time is counted in ms; a timer holds the ms left before it fires, and   *)
(* the clock moves from one deadline to the next.                          *)
(* An async handler is one action up to its first await and one action per *)
(* continuation; the suspended handlers of a call form a bag.              *)
(***************************************************************************)
EXTENDS Integers, Sequences, FiniteSets, Bags, TLC

\* ------------------------------------------------------------------ bounds
\* The environments explored (see Scenarios) are bounded by:
RelayAnswers == 2        \* call.answered deliveries per call identifier
RelaySessions == 2       \* telephony audio connections per call identifier
RelayMessages == 2       \* final transcripts delivered, FAQ-only build
ReconnectMessages == 1   \* final transcripts delivered next to redelivered events
HangupMessages == 4      \* final transcripts of a questionnaire that may be torn down
IntakeMessages == 5      \* final transcripts of a questionnaire, all utterances
IntakePending == 2       \* handlers of one call suspended at an await at once
IntakeChunks == 2        \* chunks accepted into one issue buffer
RetryMessages == 6       \* final transcripts of a questionnaire with unclear answers
RedeliveryAnswers == 2   \* call.answered deliveries around two questionnaires
RedeliveryMessages == 8  \* final transcripts of two questionnaires
InterimMessages == 3     \* messages of a call that also gets interim results
TwoCallsMessages == 1    \* final transcripts of a call next to a second call

\* --------------------------------------------------------- program constants
SILENCE_REPROMPT_MS == 9000
ISSUE_SILENCE_FINALIZE_MS == 2000
ISSUE_MAX_LISTEN_MS == 20000
ISSUE_APPEND_DEDUP_WINDOW_MS == 800

Calls == {"A", "B"}
\* what url.searchParams.get("call_control_id") gives for a connection that
\* names no call
NoCallId == "null"

\* ------------------------------------------------------------------- text
UpperCase == <<"A","B","C","D","E","F","G","H","I","J","K","L","M",
               "N","O","P","Q","R","S","T","U","V","W","X","Y","Z">>
LowerCase == <<"a","b","c","d","e","f","g","h","i","j","k","l","m",
               "n","o","p","q","r","s","t","u","v","w","x","y","z">>
Digits == {"0","1","2","3","4","5","6","7","8","9"}
LowerSet == {LowerCase[i] : i \in 1..26}
WhiteSpace == {" ", "\t", "\n", "\r"}

toLowerCase(ch) ==
  IF \E i \in 1..26 : UpperCase[i] = ch
  THEN LowerCase[CHOOSE i \in 1..26 : UpperCase[i] = ch]
  ELSE ch

\* String.prototype.trim
RECURSIVE trimStart(_)
trimStart(t) ==
  IF t = <<>> THEN <<>>
  ELSE IF Head(t) \in WhiteSpace THEN trimStart(Tail(t)) ELSE t

RECURSIVE trimEnd(_)
trimEnd(t) ==
  IF t = <<>> THEN <<>>
  ELSE IF t[Len(t)] \in WhiteSpace THEN trimEnd(SubSeq(t, 1, Len(t) - 1)) ELSE t

trim(t) == trimEnd(trimStart(t))

\* .replace(/\s+/g, " "): every maximal run of whitespace becomes one space
RECURSIVE collapseSpaces(_)
collapseSpaces(t) ==
  IF t = <<>> THEN <<>>
  ELSE IF Head(t) \in WhiteSpace
       THEN <<" ">> \o collapseSpaces(trimStart(t))
       ELSE <<Head(t)>> \o collapseSpaces(Tail(t))

\* .toLowerCase().replace(/[^a-z0-9\s]/g, " ")
stripPunctuation(t) ==
  [i \in 1..Len(t) |->
     LET ch == toLowerCase(t[i]) IN
     IF ch \in LowerSet \cup Digits \cup WhiteSpace THEN ch ELSE " "]

normalizeText(t) == trim(collapseSpaces(stripPunctuation(t)))

normalizeIssueText(t) == collapseSpaces(trim(t))

\* String.prototype.includes
includes(t, sub) ==
  \E i \in 0..(Len(t) - Len(sub)) : SubSeq(t, i + 1, i + Len(sub)) = sub

\* .split(" ").filter(Boolean): the words of a text, in order
RECURSIVE wordList(_)
wordList(t) ==
  IF t = <<>> THEN <<>>
  ELSE IF Head(t) = " " THEN wordList(Tail(t))
  ELSE LET n == IF \E i \in 1..Len(t) : t[i] = " "
                THEN (CHOOSE i \in 1..Len(t) :
                        t[i] = " " /\ \A j \in 1..(i - 1) : t[j] # " ") - 1
                ELSE Len(t)
       IN <<SubSeq(t, 1, n)>> \o wordList(SubSeq(t, n + 1, Len(t)))

words(t) == {wordList(t)[i] : i \in 1..Len(wordList(t))}

AffirmativeTokens ==
  { <<"y","e","s">>, <<"y","e","a","h">>, <<"y","e","p">>, <<"s","u","r","e">>,
    <<"o","k">>, <<"o","k","a","y">>,
    <<"a","f","f","i","r","m","a","t","i","v","e">> }
NegativeTokens ==
  { <<"n","o">>, <<"n","o","p","e">>, <<"n","a","h">>,
    <<"n","e","g","a","t","i","v","e">> }

\* tri-state: "true", "false" or "null"
parseYesNo(t) ==
  LET norm == normalizeText(t) IN
  IF norm = <<>> THEN "null"
  ELSE IF words(norm) \cap AffirmativeTokens # {} THEN "true"
  ELSE IF words(norm) \cap NegativeTokens # {} THEN "false"
  ELSE "null"

\* the keyword list that finalizeIssue carries inline
EmergencyKeywords ==
  { <<"f","i","r","e">>, <<"s","m","o","k","e">>, <<"g","a","s">>,
    <<"f","l","o","o","d">>, <<"l","e","a","k">>,
    <<"w","a","t","e","r"," ","l","e","a","k">>,
    <<"n","o"," ","h","e","a","t">>, <<"s","p","a","r","k","s">> }

isEmergencyIssue(issue) ==
  LET normIssue == normalizeText(issue) IN
  \E kw \in EmergencyKeywords : includes(normIssue, normalizeText(kw))

\* ------------------------------------------------------------- transcripts
T_unit == <<" ","2","0","4">>
T_leak == <<"W","a","t","e","r"," "," ","l","e","a","k">>
T_yes == <<"Y","e","s",".">>
T_no == <<"n","o">>
T_blank == <<" ">>
Transcripts == {T_unit, T_leak, T_yes, T_no, T_blank}

\* what callers ask in FAQ mode
T_open == <<"w","h","a","t"," ","t","i","m","e"," ","a","r","e"," ","y","o","u"," ",
            "o","p","e","n"," ","t","o","d","a","y">>
T_park == <<"W","h","e","r","e"," ","c","a","n"," ","I"," ","p","a","r","k","?">>
T_rent == <<"w","h","e","n"," ","i","s"," ","r","e","n","t"," ","d","u","e">>
T_pool == <<"i","s"," ","t","h","e"," ","p","o","o","l"," ","o","p","e","n">>
T_gym == <<"G","y","m","!">>
T_laundry == <<"l","a","u","n","d","r","y">>
T_hello == <<"h","e","l","l","o">>
T_onlyPool == <<"p","o","o","l">>
T_onlyOpen == <<"o","p","e","n">>
Utterances ==
  {T_open, T_park, T_rent, T_pool, T_gym, T_laundry, T_hello, T_onlyPool, T_onlyOpen}

\* ------------------------------------------------------------------ state
VARIABLES
  env,            \* what the environment delivers in this run (never changes)
  variant,        \* "intake": the questionnaire build; "faq": the FAQ-only build
  silenceTimers,  \* call -> ms left on the reply timer, NoTimer when absent
  sttSessions,    \* call -> index of the registered session, 0 when absent
  contextCache,   \* call -> cached dashboard context, NoContext when absent
  flowState,      \* call -> index of the registered FlowState object, 0 when absent
  flows,          \* call -> the FlowState objects created for it, in creation order
  sessions,       \* call -> the session objects created for it, in creation order
  pending,        \* call -> bag of handlers suspended at an await
  said,           \* call -> the speak actions issued by the last step, in order
  posted,         \* call -> the payloads the last step gave to postMaintenanceEvent
  nTickets,       \* call -> calls of postMaintenanceEvent so far
  nAnswers,       \* call -> call.answered events delivered
  nMsgs,          \* call -> messages delivered on its transcription connections
  forwarded,      \* call -> the audio the last step sent to a transcription connection
  raised,         \* call -> the handler run by the last step ended by throwing
  refused,        \* the last step closed an arriving audio connection at once
  ended           \* call -> call.hangup has been handled for it

vars == <<env, variant, silenceTimers, sttSessions, contextCache, flowState, flows,
          sessions, pending, said, posted, nTickets, nAnswers, nMsgs, forwarded,
          raised, refused, ended>>

NoTimer == 0 - 1
NoContext == "none"
Undefined == <<"undefined">>

\* the values a FlowState object is created with (accepted: the chunks taken
\* into issueBuffer, kept to state what the buffer must hold)
NewFlow ==
  [ step |-> "unit_number",
    unit_number |-> Undefined,
    issue_description |-> Undefined,
    is_emergency |-> "undefined",
    permission_to_enter |-> "undefined",
    pets_present |-> "undefined",
    retries_permission |-> 0,
    retries_pets |-> 0,
    issueBuffer |-> <<>>,
    issueFinalizeTimer |-> NoTimer,
    issueMaxTimer |-> NoTimer,
    issueListeningActive |-> FALSE,
    lastIssueChunk |-> <<>>,
    lastIssueChunkAge |-> ISSUE_APPEND_DEDUP_WINDOW_MS,
    ingested |-> FALSE,
    accepted |-> <<>> ]

\* a FlowState object that nothing can reach any more
DeadFlow == [NewFlow EXCEPT !.step = "unreachable"]

\* the values a session object is created with (sttFinalCount is a field of
\* the intake build only; the FAQ-only build never changes it)
NewSession(ctx) ==
  [ telnyxWs |-> "open",
    deepgramWs |-> "CONNECTING",
    finalized |-> FALSE,
    flowComplete |-> FALSE,
    sttFinalCount |-> 0,
    context |-> ctx ]

\* a session object that nothing can reach any more
DeadSession ==
  [ telnyxWs |-> "closed",
    deepgramWs |-> "null",
    finalized |-> FALSE,
    flowComplete |-> FALSE,
    sttFinalCount |-> 0,
    context |-> NoContext ]

\* ------------------------------------------------------------------ messages
\* what JSON.parse makes of a message of the transcription connection: a
\* result record, the value null, or nothing (the text is not JSON)
Result(is_final, transcript) ==
  [json |-> "object", is_final |-> is_final, transcript |-> transcript]
NoResult(json) == [json |-> json, is_final |-> FALSE, transcript |-> <<>>]

\* the messages that are not a final result with text: not JSON, the literal
\* null, an interim result with text, a final result without text
Unrecognized ==
  {NoResult("invalid"), NoResult("null"), Result(FALSE, T_yes), Result(TRUE, <<>>)}

\* what JSON.parse makes of a message of the telephony audio channel: a frame
\* record with its event tag and its payload (message.payload, or else
\* message.media.payload), the value null, or nothing
Frame(event, payload) == [json |-> "object", event |-> event, payload |-> payload]
NoFrame(json) == [json |-> json, event |-> "", payload |-> <<>>]

Base64Digits ==
  <<"A","B","C","D","E","F","G","H","I","J","K","L","M","N","O","P",
    "Q","R","S","T","U","V","W","X","Y","Z","a","b","c","d","e","f",
    "g","h","i","j","k","l","m","n","o","p","q","r","s","t","u","v",
    "w","x","y","z","0","1","2","3","4","5","6","7","8","9","+","/">>

Base64Value(ch) == (CHOOSE i \in 1..Len(Base64Digits) : Base64Digits[i] = ch) - 1

\* Buffer.from(payload, "base64") for a payload of whole, padded groups
RECURSIVE base64Decode(_)
base64Decode(p) ==
  IF Len(p) < 4 THEN <<>>
  ELSE LET a == Base64Value(p[1])
           b == Base64Value(p[2])
           first == a * 4 + (b \div 16)
       IN IF p[3] = "=" THEN <<first>>
          ELSE LET c == Base64Value(p[3])
                   second == (b % 16) * 16 + (c \div 4)
               IN IF p[4] = "=" THEN <<first, second>>
                  ELSE <<first, second, (c % 4) * 64 + Base64Value(p[4])>>
                       \o base64Decode(SubSeq(p, 5, Len(p)))

\* the frames delivered: not JSON, null, a frame of another event, media
\* frames without and with a payload
Frames ==
  {NoFrame("invalid"), NoFrame("null"), Frame("start", <<>>), Frame("media", <<>>),
   Frame("media", <<"A", "Q", "I", "D">>), Frame("media", <<"/", "w", "=", "=">>)}

Environment(answers, conns, msgs, susp, chunks, alphabet, fetches, ends) ==
  [ answers |-> answers, sessions |-> conns, msgs |-> msgs, pending |-> susp,
    chunks |-> chunks, alphabet |-> alphabet, fetches |-> fetches, ends |-> ends,
    hangups |-> ends, calls |-> {"A"}, passive |-> {}, noise |-> {},
    frames |-> {}, credential |-> TRUE, unnamed |-> {}, context |-> "dashboard" ]

InitIn(e, v) ==
  /\ env = e
  /\ variant = v
  /\ silenceTimers = [c \in Calls |-> NoTimer]
  /\ sttSessions = [c \in Calls |-> 0]
  /\ contextCache = [c \in Calls |-> NoContext]
  /\ flowState = [c \in Calls |-> 0]
  /\ flows = [c \in Calls |-> <<>>]
  /\ sessions = [c \in Calls |-> <<>>]
  /\ pending = [c \in Calls |-> EmptyBag]
  /\ said = [c \in Calls |-> <<>>]
  /\ posted = [c \in Calls |-> <<>>]
  /\ nTickets = [c \in Calls |-> 0]
  /\ nAnswers = [c \in Calls |-> 0]
  /\ nMsgs = [c \in Calls |-> 0]
  /\ forwarded = [c \in Calls |-> <<>>]
  /\ raised = [c \in Calls |-> FALSE]
  /\ refused = FALSE
  /\ ended = [c \in Calls |-> FALSE]

\* FAQ-only build: redelivered events, duplicate connections, teardown
Relay ==
  Environment(RelayAnswers, RelaySessions, RelayMessages, 1, 1,
              {T_unit, T_leak}, BOOLEAN, TRUE)
\* questionnaire build under redelivered events, duplicate connections and
\* connections that close or fail, for a call that does not hang up
Reconnect ==
  [Environment(RelayAnswers, RelaySessions, ReconnectMessages, 1, 1,
               {T_unit}, {TRUE}, TRUE) EXCEPT !.hangups = FALSE]
\* one questionnaire that a hangup or a closing connection may interrupt
Hangup ==
  Environment(1, 1, HangupMessages, 1, IntakeChunks,
              {T_unit, T_leak, T_yes}, {FALSE}, TRUE)
\* one questionnaire over every utterance
Intake ==
  Environment(1, 1, IntakeMessages, IntakePending, IntakeChunks, Transcripts,
              {FALSE}, FALSE)
\* one questionnaire with unclear and repeated answers
Retry ==
  [Environment(1, 1, RetryMessages, IntakePending, 1, {T_yes, T_blank}, {FALSE},
               FALSE) EXCEPT !.noise = Unrecognized, !.frames = Frames]
\* two questionnaires separated by a redelivered call.answered
Redelivery ==
  Environment(RedeliveryAnswers, 1, RedeliveryMessages, IntakePending, 1, {T_yes},
              {FALSE}, FALSE)

\* FAQ-only build: one call whose results include interim and malformed ones
Interim ==
  [Environment(1, 1, InterimMessages, 1, 1, {T_unit}, {TRUE}, FALSE)
     EXCEPT !.noise = Unrecognized, !.frames = Frames, !.unnamed = {NoCallId}]

\* FAQ-only build: one question of a caller against the longer FAQ list
Faq ==
  [Environment(1, 1, 1, 1, 1, Utterances, BOOLEAN, FALSE)
     EXCEPT !.context = "catalogue"]

\* a process started without the transcription credential
NoCredential ==
  [Environment(1, 1, 1, 1, 1, {T_unit}, {TRUE}, TRUE)
     EXCEPT !.credential = FALSE, !.unnamed = {NoCallId}]

\* two calls at once: A with every event, B answered and connected only
TwoCalls ==
  [Environment(1, 1, TwoCallsMessages, 1, 1, {T_unit}, {TRUE}, TRUE)
     EXCEPT !.calls = {"A", "B"}, !.passive = {"B"},
            !.frames = {Frame("media", <<"A", "Q", "I", "D">>)}]

Scenarios ==
  {<<Relay, "faq">>, <<Interim, "faq">>, <<Faq, "faq">>, <<NoCredential, "intake">>,
   <<TwoCalls, "faq">>,
   <<TwoCalls, "intake">>, <<Reconnect, "intake">>, <<Hangup, "intake">>,
   <<Intake, "intake">>, <<Retry, "intake">>, <<Redelivery, "intake">>}

Init == \E sc \in Scenarios : InitIn(sc[1], sc[2])

\* ------------------------------------------------------------ small helpers
Cont(fn, pc, k) == [fn |-> fn, pc |-> pc, flow |-> k]
Suspend(c, k) == [pending EXCEPT ![c] = @ (+) SetToBag({k})]
ResumeFrom(c, k) == [pending EXCEPT ![c] = @ (-) SetToBag({k})]
Replace(c, k, k2) == [pending EXCEPT ![c] = (@ (-) SetToBag({k})) (+) SetToBag({k2})]
HasRoom(c) == BagCardinality(pending[c]) < env.pending

\* what the step gives to the telephony action and ingestion collaborators
Says(c, prompts) == said' = [d \in Calls |-> IF d = c THEN prompts ELSE <<>>]
Silent == said' = [d \in Calls |-> <<>>]
NoPost == posted' = [d \in Calls |-> <<>>]
NoAudio == forwarded' = [d \in Calls |-> <<>>]
Returns == raised' = [d \in Calls |-> FALSE]
Admits == refused' = FALSE

\* Objects that no registry entry, suspended handler or pending timer can
\* reach are forgotten: their fields can no longer be read or written.
ReachableFlow(fs, reg, pend, c, k) ==
  \/ reg[c] = k
  \/ \E x \in BagToSet(pend[c]) : x.flow = k
  \/ fs[c][k].issueFinalizeTimer # NoTimer
  \/ fs[c][k].issueMaxTimer # NoTimer

Collect(fs, reg, pend) ==
  [c \in Calls |->
     [k \in 1..Len(fs[c]) |->
        IF ReachableFlow(fs, reg, pend, c, k) THEN fs[c][k] ELSE DeadFlow]]

ReachableSession(ss, reg, c, s) ==
  reg[c] = s \/ ss[c][s].telnyxWs # "closed" \/ ss[c][s].deepgramWs # "null"

CollectSessions(ss, reg) ==
  [c \in Calls |->
     [s \in 1..Len(ss[c]) |->
        IF ReachableSession(ss, reg, c, s) THEN ss[c][s] ELSE DeadSession]]

\* --------------------------------------------------------------- reply timer
\* scheduleSilenceTimer without its first test: every call arms a new timer
scheduleSilenceTimerAnew(timers, c) == [timers EXCEPT ![c] = SILENCE_REPROMPT_MS]

scheduleSilenceTimer(timers, c) ==
  IF timers[c] # NoTimer THEN timers
  ELSE [timers EXCEPT ![c] = SILENCE_REPROMPT_MS]

\* cancelSilenceTimer without clearTimeout and delete
cancelSilenceTimerKeeping(timers, c) == timers

cancelSilenceTimer(timers, c) ==
  IF timers[c] = NoTimer THEN timers
  ELSE [timers EXCEPT ![c] = NoTimer]

\* ---------------------------------------------------------------- FAQ matcher
\* the FAQ list of the dashboard context that the context fetch returns
DashboardFaqs ==
  << [ question |-> <<"w","h","a","t"," ","a","r","e"," ","y","o","u","r"," ",
                      "h","o","u","r","s">>,
       keywords |-> << <<"h","o","u","r","s">>, <<"o","p","e","n">> >>,
       answer |-> <<"W","e"," ","a","r","e"," ","o","p","e","n"," ","9"," ",
                    "t","o"," ","5",".">> ] >>

\* a text of n copies of one character
Repeat(ch, n) == [i \in 1..n |-> ch]

\* a longer FAQ list as a dashboard may return it: an entry twice, entries with
\* an empty, a too long, a longest possible, a padded and a blank answer, and an
\* entry whose question and keywords are left blank
CatalogueFaqs ==
  << DashboardFaqs[1],
     [ question |-> <<"W","h","a","t"," ","a","r","e"," ","y","o","u","r"," ",
                      "h","o","u","r","s","?">>,
       keywords |-> << <<"h","o","u","r","s">>, <<"o","p","e","n">> >>,
       answer |-> <<"N","i","n","e"," ","t","o"," ","f","i","v","e",".">> ],
     [ question |-> <<"w","h","e","r","e"," ","c","a","n"," ","i"," ","p","a","r","k">>,
       keywords |-> << <<"p","a","r","k","i","n","g">> >>,
       answer |-> <<>> ],
     [ question |-> <<"w","h","e","n"," ","i","s"," ","r","e","n","t"," ","d","u","e">>,
       keywords |-> << <<"r","e","n","t">> >>,
       answer |-> Repeat("x", 281) ],
     [ question |-> <<"i","s"," ","t","h","e"," ","p","o","o","l"," ","o","p","e","n">>,
       keywords |-> << <<"p","o","o","l">> >>,
       answer |-> Repeat("x", 280) ],
     [ question |-> <<"g","y","m">>,
       keywords |-> << <<"g","y","m">> >>,
       answer |-> Repeat("y", 279) \o <<" ", " ">> ],
     [ question |-> <<"?">>,
       keywords |-> << <<>>, <<" ">> >>,
       answer |-> <<"S","o","r","r","y">> ],
     [ question |-> <<"l","a","u","n","d","r","y">>,
       keywords |-> << <<"l","a","u","n","d","r","y">> >>,
       answer |-> <<" "," ">> ] >>

FaqsOf(ctx) ==
  CASE ctx = "dashboard" -> DashboardFaqs
    [] ctx = "catalogue" -> CatalogueFaqs
    [] OTHER -> <<>>

\* a length test on the answer as it is stored
isShortAnswerUntrimmed(answer) == Len(answer) > 0 /\ Len(answer) <= 280

\* isShortAnswer: the length test on the trimmed answer
isShortAnswer(answer) == Len(trim(answer)) > 0 /\ Len(trim(answer)) <= 280

RECURSIVE CountIn(_, _)
CountIn(list, set) ==
  IF list = <<>> THEN 0
  ELSE (IF Head(list) \in set THEN 1 ELSE 0) + CountIn(Tail(list), set)

RECURSIVE KeywordScore(_, _)
KeywordScore(keywords, normTranscript) ==
  IF keywords = <<>> THEN 0
  ELSE (IF normalizeText(Head(keywords)) # <<>>
           /\ includes(normTranscript, normalizeText(Head(keywords)))
        THEN 2 ELSE 0) + KeywordScore(Tail(keywords), normTranscript)

faqScore(faq, normTranscript) ==
  LET questionNorm == normalizeText(faq.question) IN
  (IF questionNorm # <<>> /\ includes(normTranscript, questionNorm)
   THEN 5
   ELSE CountIn(wordList(questionNorm), words(normTranscript)))
  + KeywordScore(faq.keywords, normTranscript)

\* a scan of the entries that lets a later entry of equal score take the place
\* of an earlier one
RECURSIVE bestFaqKeepingLast(_, _, _, _)
bestFaqKeepingLast(faqs, normTranscript, i, best) ==
  IF i > Len(faqs) THEN best
  ELSE LET score == faqScore(faqs[i], normTranscript) IN
       bestFaqKeepingLast(faqs, normTranscript, i + 1,
               IF score > 0 /\ (best = 0 \/ score >= faqScore(faqs[best], normTranscript))
               THEN i ELSE best)

\* index of the matched entry, 0 for no match
RECURSIVE bestFaq(_, _, _, _)
bestFaq(faqs, normTranscript, i, best) ==
  IF i > Len(faqs) THEN best
  ELSE LET score == faqScore(faqs[i], normTranscript) IN
       bestFaq(faqs, normTranscript, i + 1,
               IF score > 0 /\ (best = 0 \/ score > faqScore(faqs[best], normTranscript))
               THEN i ELSE best)

findFaqMatch(transcript, faqs) ==
  IF transcript = <<>> \/ faqs = <<>> THEN 0
  ELSE LET normTranscript == normalizeText(transcript) IN
       IF normTranscript = <<>> THEN 0
       ELSE LET best == bestFaq(faqs, normTranscript, 1, 0) IN
            IF best = 0 \/ faqScore(faqs[best], normTranscript) < 3 THEN 0 ELSE best

\* the speak action of handleFaqResponse
faqReply(ctx, transcript) ==
  LET faqs == FaqsOf(ctx)
      match == findFaqMatch(transcript, faqs)
  IN IF match = 0 \/ faqs[match].answer = <<>> THEN "callback_offer"
     ELSE IF isShortAnswer(faqs[match].answer) THEN "faq_answer_" \o ToString(match)
     ELSE "callback_offer"

\* ----------------------------------------------------------------- teardown
Heap ==
  [ sttSessions |-> sttSessions, contextCache |-> contextCache,
    flowState |-> flowState, flows |-> flows, sessions |-> sessions ]

clearIssueTimers(f) ==
  [f EXCEPT !.issueFinalizeTimer = NoTimer, !.issueMaxTimer = NoTimer]

\* a teardown that only closes an open transcription connection on its first
\* run and removes the registry entries on the next one
cleanupSttInTwoRuns(h, c) ==
  LET s == h.sttSessions[c] IN
  IF s = 0 THEN h
  ELSE IF h.sessions[c][s].deepgramWs = "OPEN"
       THEN [h EXCEPT !.sessions[c][s].deepgramWs = "CLOSING"]
       ELSE [h EXCEPT !.sttSessions[c] = 0, !.contextCache[c] = NoContext,
                      !.flowState[c] = 0]

\* a teardown that empties the session, context and flow registries
cleanupSttOfAllCalls(h, c) ==
  [h EXCEPT !.sttSessions = [d \in Calls |-> 0],
            !.contextCache = [d \in Calls |-> NoContext],
            !.flowState = [d \in Calls |-> 0]]

\* cleanupStt as a function of the registries and objects it reads and writes
cleanupStt(h, c) ==
  LET s == h.sttSessions[c]
      k == h.flowState[c]
      cleared == IF k = 0 THEN h.flows
                 ELSE [h.flows EXCEPT ![c][k] = clearIssueTimers(@)]
  IN IF s = 0 THEN [h EXCEPT !.flows = cleared]
     ELSE [h EXCEPT !.flows = cleared,
                    !.sessions[c][s].deepgramWs =
                        IF @ = "OPEN" THEN "CLOSING" ELSE @,
                    !.sttSessions[c] = 0,
                    !.contextCache[c] = NoContext,
                    !.flowState[c] = 0]

\* the step leaves the registries and objects as h, with pending unchanged
SetHeap(h) ==
  /\ sttSessions' = h.sttSessions
  /\ contextCache' = h.contextCache
  /\ flowState' = h.flowState
  /\ flows' = Collect(h.flows, h.flowState, pending)
  /\ sessions' = CollectSessions(h.sessions, h.sttSessions)

\* ------------------------------------------------------- flow state machine
\* What a handler does up to its first await: the FlowState it leaves, the
\* speak action it issues (at most one before it suspends) and where it
\* suspends ("none": it returns without awaiting).
Outcome(f, say, pc) == [flow |-> f, say |-> say, pc |-> pc]

\* a unit_number step that stores the transcript as heard
unitNumberStepVerbatim(f, transcript) ==
  Outcome([clearIssueTimers(f) EXCEPT
             !.unit_number = transcript,
             !.step = "issue_description",
             !.issueListeningActive = TRUE,
             !.issueBuffer = <<>>,
             !.lastIssueChunk = <<>>,
             !.lastIssueChunkAge = ISSUE_APPEND_DEDUP_WINDOW_MS,
             !.issueMaxTimer = ISSUE_MAX_LISTEN_MS,
             !.accepted = <<>>],
          <<"issue_prompt">>, "tail")

unitNumberStep(f, transcript) ==
  Outcome([clearIssueTimers(f) EXCEPT
             !.unit_number = trim(transcript),
             !.step = "issue_description",
             !.issueListeningActive = TRUE,
             !.issueBuffer = <<>>,
             !.lastIssueChunk = <<>>,
             !.lastIssueChunkAge = ISSUE_APPEND_DEDUP_WINDOW_MS,
             !.issueMaxTimer = ISSUE_MAX_LISTEN_MS,
             !.accepted = <<>>],
          <<"issue_prompt">>, "tail")

\* a duplicate test without the time window
isRepeatedChunk(f, issueChunk) ==
  f.lastIssueChunk # <<>> /\ issueChunk = f.lastIssueChunk

\* the duplicate test of the issue_description branch
isDuplicateChunk(f, issueChunk) ==
  /\ f.lastIssueChunk # <<>>
  /\ issueChunk = f.lastIssueChunk
  /\ f.lastIssueChunkAge < ISSUE_APPEND_DEDUP_WINDOW_MS

appendChunk(buffer, issueChunk) ==
  IF buffer = <<>> THEN issueChunk ELSE trim(buffer \o <<" ">> \o issueChunk)

issueDescriptionStep(f, transcript) ==
  LET issueChunk == normalizeIssueText(transcript) IN
  IF issueChunk = <<>> THEN Outcome(f, <<>>, "none")
  ELSE IF isDuplicateChunk(f, issueChunk) THEN Outcome(f, <<>>, "none")
  ELSE Outcome([f EXCEPT
                  !.lastIssueChunk = issueChunk,
                  !.lastIssueChunkAge = 0,
                  !.issueBuffer = appendChunk(f.issueBuffer, issueChunk),
                  !.issueFinalizeTimer = ISSUE_SILENCE_FINALIZE_MS,
                  !.issueMaxTimer = ISSUE_MAX_LISTEN_MS,
                  !.accepted = Append(@, issueChunk)],
               <<>>, "none")

permissionStep(f, transcript) ==
  LET parsed == parseYesNo(transcript) IN
  IF parsed = "null" /\ f.retries_permission < 1
  THEN Outcome([f EXCEPT !.retries_permission = @ + 1],
               <<"permission_prompt">>, "tail")
  ELSE Outcome([f EXCEPT !.permission_to_enter = parsed, !.step = "pets_present"],
               <<"pets_prompt">>, "tail")

petsStep(f, transcript) ==
  LET parsed == parseYesNo(transcript) IN
  IF parsed = "null" /\ f.retries_pets < 1
  THEN Outcome([f EXCEPT !.retries_pets = @ + 1], <<"pets_prompt">>, "tail")
  ELSE Outcome([f EXCEPT !.pets_present = parsed], <<"confirmation">>, "confirmation")

\* handleFlowTranscript up to its first await
handleFlowTranscript(f, transcript) ==
  CASE f.step = "unit_number" -> unitNumberStep(f, transcript)
    [] f.step = "issue_description" -> issueDescriptionStep(f, transcript)
    [] f.step = "permission_to_enter" -> permissionStep(f, transcript)
    [] f.step = "pets_present" -> petsStep(f, transcript)
    [] OTHER -> Outcome(f, <<>>, "none")

\* a finalizeIssue guarded by the step alone
finalizeIssueWhileOnStep(f) ==
  IF f.step # "issue_description"
  THEN Outcome(f, <<>>, "none")
  ELSE LET issue == normalizeIssueText(f.issueBuffer)
           isEmergency == isEmergencyIssue(issue)
           g == [clearIssueTimers(f) EXCEPT
                   !.issueListeningActive = FALSE,
                   !.issue_description = issue,
                   !.is_emergency = IF isEmergency THEN "true" ELSE "false"]
       IN IF isEmergency
          THEN Outcome(g, <<"emergency_ack">>, "emergency_ack")
          ELSE Outcome([g EXCEPT !.step = "permission_to_enter"],
                       <<"permission_prompt">>, "tail")

\* finalizeIssue up to its first await
finalizeIssue(f) ==
  IF f.step # "issue_description" \/ ~f.issueListeningActive
  THEN Outcome(f, <<>>, "none")
  ELSE LET issue == normalizeIssueText(f.issueBuffer)
           isEmergency == isEmergencyIssue(issue)
           g == [clearIssueTimers(f) EXCEPT
                   !.issueListeningActive = FALSE,
                   !.issue_description = issue,
                   !.is_emergency = IF isEmergency THEN "true" ELSE "false"]
       IN IF isEmergency
          THEN Outcome(g, <<"emergency_ack">>, "emergency_ack")
          ELSE Outcome([g EXCEPT !.step = "permission_to_enter"],
                       <<"permission_prompt">>, "tail")

\* the payload handed to postMaintenanceEvent
ticketPayload(f) ==
  [ unit_number |-> IF f.unit_number = Undefined THEN <<>> ELSE f.unit_number,
    issue_description |->
        IF f.issue_description = Undefined THEN <<>> ELSE f.issue_description,
    is_emergency |-> (f.is_emergency = "true"),
    permission_to_enter |->
        IF f.permission_to_enter = "undefined" THEN "null" ELSE f.permission_to_enter,
    pets_present |-> IF f.pets_present = "undefined" THEN "null" ELSE f.pets_present ]

\* the end of the pets_present completion, after its two speak actions
completeFlow(f) == [f EXCEPT !.ingested = TRUE, !.step = "complete"]

\* --------------------------------------------------------- outbound actions
\* how the promise of sendTelnyxAction settles when the request is delivered
\* (ok) or is refused or unreachable (~ok), if failures were passed on
sendTelnyxActionRejecting(ok) == IF ok THEN "resolved" ELSE "rejected"

\* how the promise of sendTelnyxAction settles: a refused request and a thrown
\* fetch are logged inside the function
sendTelnyxAction(ok) == "resolved"

\* the handler suspended as k at `await sendTelnyxAction(...)` when the promise
\* is rejected: it ends there and its caller logs the error
Abandon(c, k) ==
  /\ pending' = ResumeFrom(c, k)
  /\ Silent /\ NoPost /\ NoAudio /\ Returns /\ Admits
  /\ UNCHANGED <<ended, env, variant, silenceTimers, sttSessions, contextCache, flowState,
                 flows, sessions, nTickets, nAnswers, nMsgs>>

\* ------------------------------------------------------- lifecycle events
\* call.answered up to its first await (the context fetch)
CallAnswered(c) ==
  /\ nAnswers[c] < env.answers
  /\ HasRoom(c)
  /\ nAnswers' = [nAnswers EXCEPT ![c] = @ + 1]
  /\ pending' = Suspend(c, Cont("handleTelnyxEvent", "fetchGreeting", 0))
  /\ Silent /\ NoPost /\ NoAudio /\ Returns /\ Admits
  /\ UNCHANGED <<ended, env, variant, silenceTimers, sttSessions, contextCache, flowState,
                 flows, sessions, nTickets, nMsgs>>

\* the context fetch returns (with a context or without); the greeting is spoken
ResumeFetchGreeting(c) ==
  LET k == Cont("handleTelnyxEvent", "fetchGreeting", 0) IN
  /\ BagIn(k, pending[c])
  /\ \E ok \in env.fetches :
       contextCache' = IF ok THEN [contextCache EXCEPT ![c] = env.context]
                       ELSE contextCache
  /\ Says(c, <<"greeting">>) /\ NoPost /\ NoAudio /\ Returns /\ Admits
  /\ pending' = Replace(c, k, Cont("handleTelnyxEvent", "greeting", 0))
  /\ UNCHANGED <<ended, env, variant, silenceTimers, sttSessions, flowState, flows, sessions,
                 nTickets, nAnswers, nMsgs>>

\* the flow objects after initializeFlow has created a FlowState for c
initializeFlow(fs, c) == [fs EXCEPT ![c] = Append(@, NewFlow)]

\* the greeting speak returns: reply timer, streaming start and (intake build)
\* initializeFlow up to its await
GreetingReturns(c, ok) ==
  LET k == Cont("handleTelnyxEvent", "greeting", 0) IN
  /\ BagIn(k, pending[c])
  /\ IF sendTelnyxAction(ok) # "resolved" THEN Abandon(c, k)
     ELSE
       /\ pending' = ResumeFrom(c, k)
       /\ IF variant = "intake"
          THEN /\ silenceTimers' =
                    cancelSilenceTimer(scheduleSilenceTimer(silenceTimers, c), c)
               /\ flowState' = [flowState EXCEPT ![c] = Len(flows[c]) + 1]
               /\ flows' = Collect(initializeFlow(flows, c), flowState', pending')
               /\ Says(c, <<"unit_prompt">>)
          ELSE /\ silenceTimers' = scheduleSilenceTimer(silenceTimers, c)
               /\ Silent
               /\ UNCHANGED <<flows, flowState>>
       /\ NoPost /\ NoAudio /\ Returns /\ Admits
       /\ UNCHANGED <<ended, env, variant, sttSessions, contextCache, sessions, nTickets,
                      nAnswers, nMsgs>>

ResumeGreeting(c) == \E ok \in BOOLEAN : GreetingReturns(c, ok)

\* call.hangup
CallHangup(c) ==
  /\ env.hangups
  /\ silenceTimers' = cancelSilenceTimer(silenceTimers, c)
  /\ SetHeap(cleanupStt(Heap, c))
  /\ ended' = [ended EXCEPT ![c] = TRUE]
  /\ Silent /\ NoPost /\ NoAudio /\ Returns /\ Admits
  /\ UNCHANGED <<env, variant, pending, nTickets, nAnswers, nMsgs>>

\* ------------------------------------------------------------ session relay
\* the two tests of wss.on("connection") with the second one left out
AdmittedWithoutCredential(id) == id # NoCallId

\* the two tests of wss.on("connection") that a connection has to pass:
\* `!callControlId` and `!DEEPGRAM_API_KEY`
Admitted(id) == id # NoCallId /\ env.credential

\* wss.on("connection") that ends at `ws.close(); return;`
MediaRefuse(id) ==
  /\ refused' = TRUE
  /\ Silent /\ NoPost /\ NoAudio /\ Returns
  /\ UNCHANGED <<ended, env, variant, silenceTimers, sttSessions, contextCache, flowState,
                 flows, sessions, pending, nTickets, nAnswers, nMsgs>>

\* wss.on("connection") with a call identifier and the transcription credential
MediaConnect(c) ==
  /\ Len(sessions[c]) < env.sessions
  /\ sttSessions' = [sttSessions EXCEPT ![c] = Len(sessions[c]) + 1]
  /\ sessions' = CollectSessions(
                   [sessions EXCEPT ![c] = Append(@, NewSession(contextCache[c]))],
                   sttSessions')
  /\ Silent /\ NoPost /\ NoAudio /\ Returns /\ Admits
  /\ UNCHANGED <<ended, env, variant, silenceTimers, contextCache, flowState, flows, pending,
                 nTickets, nAnswers, nMsgs>>

\* wss.on("connection") for a connection whose URL names id
wssConnection(id) == IF Admitted(id) THEN MediaConnect(id) ELSE MediaRefuse(id)

\* the transcription connection of session s opens
DgOpen(c, s) ==
  /\ sessions[c][s].deepgramWs = "CONNECTING"
  /\ sessions' = [sessions EXCEPT ![c][s].deepgramWs = "OPEN"]
  /\ Silent /\ NoPost /\ NoAudio /\ Returns /\ Admits
  /\ UNCHANGED <<ended, env, variant, silenceTimers, sttSessions, contextCache, flowState,
                 flows, pending, nTickets, nAnswers, nMsgs>>

\* dgWs.on("close") / dgWs.on("error")
DgClosed(c, s) ==
  /\ env.ends
  /\ sessions[c][s].deepgramWs # "null"
  /\ sessions' = CollectSessions([sessions EXCEPT ![c][s].deepgramWs = "null"],
                                 sttSessions)
  /\ Silent /\ NoPost /\ NoAudio /\ Returns /\ Admits
  /\ UNCHANGED <<ended, env, variant, silenceTimers, sttSessions, contextCache, flowState,
                 flows, pending, nTickets, nAnswers, nMsgs>>

\* ws.on("error"): the close event of the same connection follows
WsError(c, s) ==
  /\ env.ends
  /\ sessions[c][s].telnyxWs = "open"
  /\ SetHeap(cleanupStt(Heap, c))
  /\ Silent /\ NoPost /\ NoAudio /\ Returns /\ Admits
  /\ UNCHANGED <<ended, env, variant, silenceTimers, pending, nTickets, nAnswers, nMsgs>>

\* ws.on("close")
WsClose(c, s) ==
  /\ env.ends
  /\ sessions[c][s].telnyxWs = "open"
  /\ LET h == cleanupStt(Heap, c) IN
       SetHeap([h EXCEPT !.sessions[c][s].telnyxWs = "closed"])
  /\ Silent /\ NoPost /\ NoAudio /\ Returns /\ Admits
  /\ UNCHANGED <<ended, env, variant, silenceTimers, pending, nTickets, nAnswers, nMsgs>>

\* the frame is one that ws.on("message") of the session sends on
Forwards(sn, fr) ==
  /\ ~sn.finalized /\ sn.deepgramWs = "OPEN"
  /\ fr.json = "object" /\ fr.event = "media" /\ fr.payload # <<>>

\* the handler throws: `message.event` and `message.payload` are read from
\* what JSON.parse returned, outside any try, also when that is null
Throws(sn, fr) == ~sn.finalized /\ sn.deepgramWs = "OPEN" /\ fr.json = "null"

\* ws.on("message") of session s (its flag loggedFirstMessage, which only
\* selects a log line, is left out)
WsMessage(c, s, fr) ==
  /\ sessions[c][s].telnyxWs = "open"
  /\ forwarded' = [d \in Calls |->
                     IF d = c /\ Forwards(sessions[c][s], fr)
                     THEN <<[session |-> s, audio |-> base64Decode(fr.payload)]>>
                     ELSE <<>>]
  /\ raised' = [d \in Calls |-> d = c /\ Throws(sessions[c][s], fr)]
  /\ Silent /\ NoPost /\ Admits
  /\ UNCHANGED <<ended, env, variant, silenceTimers, sttSessions, contextCache,
                 flowState, flows, sessions, pending, nTickets, nAnswers, nMsgs>>

\* the context handleFaqResponse reads
faqContext(c) ==
  IF sttSessions[c] # 0 /\ sessions[c][sttSessions[c]].context # NoContext
  THEN sessions[c][sttSessions[c]].context
  ELSE contextCache[c]

\* a message handler of the transcription connection without its first line
SilencedNever(sn) == FALSE

\* the first line of dgWs.on("message") in the intake build:
\* `if (session.flowComplete) return;`
Silenced(sn) == sn.flowComplete

\* the dispatch of dgWs.on("message") in the intake build
DispatchIntake(c, s, transcript) ==
  IF Silenced(sessions[c][s])
  THEN /\ Silent
       /\ UNCHANGED <<silenceTimers, flows, sessions, pending>>
  ELSE /\ silenceTimers' = cancelSilenceTimer(silenceTimers, c)
       /\ sessions' = [sessions EXCEPT ![c][s].sttFinalCount = @ + 1]
       /\ IF flowState[c] # 0
          THEN LET k == flowState[c]
                   o == handleFlowTranscript(flows[c][k], transcript)
               IN /\ Len(o.flow.accepted) <= env.chunks
                  /\ pending' = IF o.pc = "none" THEN pending
                                ELSE Suspend(c, Cont("handleFlowTranscript", o.pc,
                                                     IF o.pc = "tail" THEN 0 ELSE k))
                  /\ flows' = Collect([flows EXCEPT ![c][k] = o.flow], flowState, pending')
                  /\ Says(c, o.say)
          ELSE /\ Says(c, <<faqReply(faqContext(c), transcript)>>)
               /\ UNCHANGED <<flows, pending>>

\* a message handler of the transcription connection that does not look at
\* the flag
FinalizedNever(sn) == FALSE

\* the first line of dgWs.on("message") in the FAQ-only build:
\* `if (session.finalized) return;`
Finalized(sn) == sn.finalized

\* the dispatch of dgWs.on("message") in the FAQ-only build
DispatchFaq(c, s, transcript) ==
  IF Finalized(sessions[c][s])
  THEN /\ Silent
       /\ UNCHANGED <<silenceTimers, flows, sessions, pending>>
  ELSE /\ silenceTimers' = cancelSilenceTimer(silenceTimers, c)
       /\ sessions' = [sessions EXCEPT ![c][s].finalized = TRUE,
                                       ![c][s].deepgramWs = "CLOSING"]
       /\ Says(c, <<faqReply(faqContext(c), transcript)>>)
       /\ UNCHANGED <<flows, pending>>

\* dgWs.on("message") of session s with a final result of non-empty text
DgMessage(c, s, transcript) ==
  /\ sessions[c][s].deepgramWs \in {"OPEN", "CLOSING"}
  /\ nMsgs[c] < env.msgs
  /\ HasRoom(c)
  /\ nMsgs' = [nMsgs EXCEPT ![c] = @ + 1]
  /\ IF variant = "intake" THEN DispatchIntake(c, s, transcript)
                           ELSE DispatchFaq(c, s, transcript)
  /\ NoPost /\ NoAudio /\ Returns /\ Admits
  /\ UNCHANGED <<ended, env, variant, sttSessions, contextCache, flowState, nTickets, nAnswers>>

\* a result the handler would take by its text alone
RecognizedByText(m) == m.json = "object" /\ m.transcript # <<>>

\* the test `if (!isFinal || !alt?.transcript) return;` on what was parsed
Recognized(m) == m.json = "object" /\ m.is_final /\ m.transcript # <<>>

\* dgWs.on("message") of session s with a message that it drops
DgDrop(c, s, m) ==
  /\ sessions[c][s].deepgramWs \in {"OPEN", "CLOSING"}
  /\ nMsgs[c] < env.msgs
  /\ nMsgs' = [nMsgs EXCEPT ![c] = @ + 1]
  /\ sessions' = IF variant = "intake" /\ ~Silenced(sessions[c][s])
                 THEN [sessions EXCEPT ![c][s].sttFinalCount = @ + 1]
                 ELSE sessions
  /\ Silent /\ NoPost /\ NoAudio /\ Returns /\ Admits
  /\ UNCHANGED <<ended, env, variant, silenceTimers, sttSessions, contextCache,
                 flowState, flows, pending, nTickets, nAnswers>>

\* dgWs.on("message") of session s
DgReceive(c, s, m) ==
  IF Recognized(m) THEN DgMessage(c, s, m.transcript) ELSE DgDrop(c, s, m)

\* the messages the transcription connections deliver in this run
Results == {Result(TRUE, t) : t \in env.alphabet} \cup env.noise

\* ------------------------------------------------ continuations of handlers
\* the last await of a transcript handler returns: it ends without touching state
TailReturns(c, k, ok) ==
  /\ BagIn(k, pending[c])
  /\ k.pc = "tail"
  /\ IF sendTelnyxAction(ok) # "resolved" THEN Abandon(c, k)
     ELSE
       /\ pending' = ResumeFrom(c, k)
       /\ Silent /\ NoPost /\ NoAudio /\ Returns /\ Admits
       /\ UNCHANGED <<ended, env, variant, silenceTimers, sttSessions, contextCache,
                      flowState, flows, sessions, nTickets, nAnswers, nMsgs>>

ResumeTail(c, k) == \E ok \in BOOLEAN : TailReturns(c, k, ok)

\* finalizeIssue after the emergency acknowledgment
EmergencyAckReturns(c, k, ok) ==
  /\ BagIn(k, pending[c])
  /\ k.pc = "emergency_ack"
  /\ IF sendTelnyxAction(ok) # "resolved" THEN Abandon(c, k)
     ELSE
       /\ pending' = Replace(c, k, Cont("finalizeIssue", "tail", 0))
       /\ flows' = Collect([flows EXCEPT ![c][k.flow].step = "permission_to_enter"],
                           flowState, pending')
       /\ Says(c, <<"permission_prompt">>) /\ NoPost /\ NoAudio /\ Returns /\ Admits
       /\ UNCHANGED <<ended, env, variant, silenceTimers, sttSessions, contextCache,
                      flowState, sessions, nTickets, nAnswers, nMsgs>>

ResumeEmergencyAck(c, k) == \E ok \in BOOLEAN : EmergencyAckReturns(c, k, ok)

\* the pets_present completion after the confirmation line
ConfirmationReturns(c, k, ok) ==
  /\ BagIn(k, pending[c])
  /\ k.pc = "confirmation"
  /\ IF sendTelnyxAction(ok) # "resolved" THEN Abandon(c, k)
     ELSE
       /\ pending' = Replace(c, k, Cont("handleFlowTranscript", "goodbye", k.flow))
       /\ Says(c, <<"goodbye">>) /\ NoPost /\ NoAudio /\ Returns /\ Admits
       /\ UNCHANGED <<ended, env, variant, silenceTimers, sttSessions, contextCache,
                      flowState, flows, sessions, nTickets, nAnswers, nMsgs>>

ResumeConfirmation(c, k) == \E ok \in BOOLEAN : ConfirmationReturns(c, k, ok)

\* the pets_present completion after the goodbye line: ticket, step, session flag
GoodbyeReturns(c, k, ok) ==
  /\ BagIn(k, pending[c])
  /\ k.pc = "goodbye"
  /\ IF sendTelnyxAction(ok) # "resolved" THEN Abandon(c, k)
     ELSE
       /\ pending' = ResumeFrom(c, k)
       /\ LET f == flows[c][k.flow] IN
            /\ posted' = [d \in Calls |->
                            IF d = c /\ ~f.ingested THEN <<ticketPayload(f)>> ELSE <<>>]
            /\ nTickets' = IF f.ingested THEN nTickets
                           ELSE [nTickets EXCEPT ![c] = @ + 1]
            /\ flows' = Collect([flows EXCEPT ![c][k.flow] = completeFlow(f)],
                                flowState, pending')
       /\ sessions' = IF sttSessions[c] = 0 THEN sessions
                      ELSE [sessions EXCEPT ![c][sttSessions[c]].flowComplete = TRUE]
       /\ Silent /\ NoAudio /\ Returns /\ Admits
       /\ UNCHANGED <<ended, env, variant, silenceTimers, sttSessions, contextCache,
                      flowState, nAnswers, nMsgs>>

ResumeGoodbye(c, k) == \E ok \in BOOLEAN : GoodbyeReturns(c, k, ok)

\* -------------------------------------------------------------------- timers
\* the reply timer fires
\* the callback if it left its registry entry in place
silenceTimerFiredKeepingEntry(timers, c) == timers

\* the reply timer registry after the callback of c's timer has run
silenceTimerFired(timers, c) == [timers EXCEPT ![c] = NoTimer]

\* the callback of the reply timer: the speak is started and not awaited, so
\* however it settles (ok) the callback has ended
SilenceFires(c, ok) ==
  /\ silenceTimers[c] = 0
  /\ silenceTimers' = silenceTimerFired(silenceTimers, c)
  /\ Says(c, <<"reprompt">>) /\ NoPost /\ NoAudio /\ Returns /\ Admits
  /\ sendTelnyxAction(ok) \in {"resolved", "rejected"}
  /\ UNCHANGED <<ended, env, variant, sttSessions, contextCache, flowState, flows, sessions,
                 pending, nTickets, nAnswers, nMsgs>>

SilenceFire(c) == \E ok \in BOOLEAN : SilenceFires(c, ok)

\* a timer callback runs finalizeIssue(c): it acts on the object that the flow
\* registry holds for c at that moment; fired = the objects with the timer spent
RunFinalize(c, fired) ==
  LET r == flowState[c] IN
  IF r = 0
  THEN /\ flows' = Collect(fired, flowState, pending)
       /\ Silent
       /\ UNCHANGED pending
  ELSE LET o == finalizeIssue(fired[c][r]) IN
       /\ pending' = IF o.pc = "none" THEN pending
                     ELSE Suspend(c, Cont("finalizeIssue", o.pc,
                                          IF o.pc = "tail" THEN 0 ELSE r))
       /\ flows' = Collect([fired EXCEPT ![c][r] = o.flow], flowState, pending')
       /\ Says(c, o.say)

FinalizeTimerFire(c, k) ==
  /\ flows[c][k].issueFinalizeTimer = 0
  /\ RunFinalize(c, [flows EXCEPT ![c][k].issueFinalizeTimer = NoTimer])
  /\ NoPost /\ NoAudio /\ Returns /\ Admits
  /\ UNCHANGED <<ended, env, variant, silenceTimers, sttSessions, contextCache, flowState,
                 sessions, nTickets, nAnswers, nMsgs>>

MaxTimerFire(c, k) ==
  /\ flows[c][k].issueMaxTimer = 0
  /\ RunFinalize(c, [flows EXCEPT ![c][k].issueMaxTimer = NoTimer])
  /\ NoPost /\ NoAudio /\ Returns /\ Admits
  /\ UNCHANGED <<ended, env, variant, silenceTimers, sttSessions, contextCache, flowState,
                 sessions, nTickets, nAnswers, nMsgs>>

\* the clock: ms until the next deadline (a timer, or the end of a dedup window)
Aging(f) ==
  f.step = "issue_description" /\ f.lastIssueChunk # <<>>
  /\ f.lastIssueChunkAge < ISSUE_APPEND_DEDUP_WINDOW_MS

TimersOf(c) ==
  {silenceTimers[c]} \cup
  UNION {{flows[c][k].issueFinalizeTimer, flows[c][k].issueMaxTimer} :
           k \in 1..Len(flows[c])}

Deadlines ==
  UNION {(TimersOf(c) \ {NoTimer}) \cup
         {ISSUE_APPEND_DEDUP_WINDOW_MS - flows[c][k].lastIssueChunkAge :
            k \in {j \in 1..Len(flows[c]) : Aging(flows[c][j])}} : c \in Calls}

Earliest(S) == CHOOSE d \in S : \A e \in S : d <= e

Elapse(t, d) == IF t = NoTimer THEN NoTimer ELSE t - d

\* time passes up to the next deadline; an expired timer fires before any later one
Tick ==
  /\ Deadlines # {}
  /\ 0 \notin Deadlines
  /\ LET d == Earliest(Deadlines) IN
       /\ silenceTimers' = [c \in Calls |-> Elapse(silenceTimers[c], d)]
       /\ flows' = [c \in Calls |->
                     [k \in 1..Len(flows[c]) |->
                        [flows[c][k] EXCEPT
                           !.issueFinalizeTimer = Elapse(@, d),
                           !.issueMaxTimer = Elapse(@, d),
                           !.lastIssueChunkAge =
                               IF Aging(flows[c][k]) THEN @ + d ELSE @]]]
  /\ Silent /\ NoPost /\ NoAudio /\ Returns /\ Admits
  /\ UNCHANGED <<ended, env, variant, sttSessions, contextCache, flowState, sessions, pending,
                 nTickets, nAnswers, nMsgs>>

\* --------------------------------------------------------------------- Next
\* the calls that get every event; the others are answered and connected only
Active == env.calls \ env.passive

Next ==
  \/ \E c \in env.calls : CallAnswered(c)
  \/ \E c \in env.calls : ResumeFetchGreeting(c)
  \/ \E c \in env.calls : ResumeGreeting(c)
  \/ \E c \in Active : CallHangup(c)
  \/ \E id \in env.calls \cup env.unnamed : wssConnection(id)
  \/ \E c \in env.calls : \E s \in 1..Len(sessions[c]) : DgOpen(c, s)
  \/ \E c \in Active : \E s \in 1..Len(sessions[c]) : DgClosed(c, s)
  \/ \E c \in Active : \E s \in 1..Len(sessions[c]) : WsError(c, s)
  \/ \E c \in Active : \E s \in 1..Len(sessions[c]) : WsClose(c, s)
  \/ \E c \in Active : \E s \in 1..Len(sessions[c]) : \E m \in Results :
       DgReceive(c, s, m)
  \/ \E c \in Active : \E s \in 1..Len(sessions[c]) : \E fr \in env.frames :
       WsMessage(c, s, fr)
  \/ \E c \in env.calls : \E k \in BagToSet(pending[c]) : ResumeTail(c, k)
  \/ \E c \in env.calls : \E k \in BagToSet(pending[c]) : ResumeEmergencyAck(c, k)
  \/ \E c \in env.calls : \E k \in BagToSet(pending[c]) : ResumeConfirmation(c, k)
  \/ \E c \in env.calls : \E k \in BagToSet(pending[c]) : ResumeGoodbye(c, k)
  \/ \E c \in env.calls : SilenceFire(c)
  \/ \E c \in env.calls : \E k \in 1..Len(flows[c]) : FinalizeTimerFire(c, k)
  \/ \E c \in env.calls : \E k \in 1..Len(flows[c]) : MaxTimerFire(c, k)
  \/ Tick

Spec == Init /\ [][Next]_vars

\* ===================================================================== claims
Registered(c) == flowState[c] # 0
Flow(c) == flows[c][flowState[c]]
SessionsOf(c) == 1..Len(sessions[c])
FlowsOf(c) == 1..Len(flows[c])

\* the transcript handlers of c that are suspended at a speak action
InProgress(c) ==
  {x \in BagToSet(pending[c]) : x.fn \in {"handleFlowTranscript", "finalizeIssue"}}

\* a final transcript on session s of c is handed to handleFlowTranscript
ToFlow(c, s) ==
  variant = "intake" /\ ~sessions[c][s].flowComplete /\ Registered(c)

NoEntry(c) ==
  /\ sttSessions[c] = 0
  /\ flowState[c] = 0
  /\ silenceTimers[c] = NoTimer
  /\ contextCache[c] = NoContext

\* C1: once call.hangup has been handled for a call, none of the four per-call
\* registries (sessions, flows, reply timers, context cache) holds an entry for
\* it, whatever step was active and whether or not a media session existed.
C1_HangupEmptiesRegistries ==
  [][\A c \in Calls : CallHangup(c) => NoEntry(c)']_vars

\* C9: teardown is idempotent from every trigger: right after call.hangup, a
\* telephony close or a telephony error has run cleanupStt, running it again
\* leaves every registry, object and connection as it is; and from any state two
\* runs in a row leave what one run leaves.
C9_TeardownIdempotent ==
  [][\A c \in Calls :
       /\ (CallHangup(c) \/ \E s \in SessionsOf(c) : WsError(c, s) \/ WsClose(c, s))
            => cleanupStt(Heap, c)' = Heap'
       /\ cleanupStt(cleanupStt(Heap, c), c) = cleanupStt(Heap, c)]_vars

\* C9 witness: teardown has run for a call of the questionnaire build that had a
\* registered session with an open transcription connection, and the telephony
\* channel is still open, so its close will trigger teardown again.
C9_TornDownWithChannelOpen ==
  \E c \in Calls : \E s \in SessionsOf(c) :
    /\ variant = "intake"
    /\ sttSessions[c] = 0
    /\ sessions[c][s].telnyxWs = "open"
    /\ sessions[c][s].deepgramWs = "CLOSING"

\* the sessions of c whose telephony channel and transcription connection are up
LiveSessions(c) ==
  {s \in SessionsOf(c) :
     sessions[c][s].telnyxWs = "open"
     /\ sessions[c][s].deepgramWs \in {"CONNECTING", "OPEN"}}

\* C10: at most one live CallSession exists per call identifier at any time,
\* and every live session is the one the session registry holds; a second
\* audio connection for the identifier does not produce a second live session.
C10_OneLiveSession ==
  [][\A c \in Calls : MediaConnect(c) =>
       (Cardinality(LiveSessions(c)') <= 1 /\ LiveSessions(c)' \subseteq {sttSessions'[c]})]_vars

\* ------------------------------------------------------------ questionnaire
Rank(step) ==
  CASE step = "unit_number" -> 1
    [] step = "issue_description" -> 2
    [] step = "permission_to_enter" -> 3
    [] step = "pets_present" -> 4
    [] step = "complete" -> 5

\* C4: within one call the step of the call's FlowState only moves forward:
\* every change goes to the immediate successor of the current step, under any
\* sequence of lifecycle events, transcripts and timer firings.
C4_StepOnlyForward ==
  [][\A c \in Calls : (Registered(c) /\ Registered(c)') =>
       Rank(Flow(c)'.step) \in {Rank(Flow(c).step), Rank(Flow(c).step) + 1}]_vars

\* C5: handling of a final transcript by the flow never starts while a transcript
\* handler of the same call (handleFlowTranscript or finalizeIssue) is suspended
\* at a speak action.
C5_TranscriptsSequential ==
  [][\A c \in Calls : \A s \in SessionsOf(c) : \A t \in Transcripts :
       (DgMessage(c, s, t) /\ ToFlow(c, s)) => InProgress(c) = {}]_vars

\* the retry policy of a yes/no step for one transcript: f before, g after
PermissionPolicy(f, g, t, spoken) ==
  IF parseYesNo(t) = "null" /\ f.retries_permission = 0
  THEN /\ g.retries_permission = 1
       /\ g.step = f.step
       /\ g.permission_to_enter = f.permission_to_enter
       /\ spoken = <<"permission_prompt">>
  ELSE /\ g.permission_to_enter = parseYesNo(t)
       /\ g.step = "pets_present"
       /\ g.retries_permission = f.retries_permission

PetsPolicy(f, g, t, spoken) ==
  IF parseYesNo(t) = "null" /\ f.retries_pets = 0
  THEN /\ g.retries_pets = 1
       /\ g.step = f.step
       /\ g.pets_present = f.pets_present
       /\ spoken = <<"pets_prompt">>
  ELSE /\ g.pets_present = parseYesNo(t)
       /\ spoken = <<"confirmation">>
       /\ g.retries_pets = f.retries_pets

\* C6: both yes/no steps follow the retry policy (first unknown answer: counter
\* to 1, same prompt again, nothing captured, same step; otherwise the parsed
\* value is stored and the step resolves), the retry counters never exceed 1,
\* and a step consumes at most two transcripts: none reaches a yes/no step that
\* has already used its retry and stored its answer.
C6_YesNoRetryPolicy ==
  [][\A c \in Calls : \A s \in SessionsOf(c) : \A t \in Transcripts :
       (DgMessage(c, s, t) /\ ToFlow(c, s)) =>
         /\ Flow(c).step = "permission_to_enter" =>
              /\ PermissionPolicy(Flow(c), Flow(c)', t, said'[c])
              /\ ~(Flow(c).retries_permission = 1
                    /\ Flow(c).permission_to_enter # "undefined")
         /\ Flow(c).step = "pets_present" =>
              /\ PetsPolicy(Flow(c), Flow(c)', t, said'[c])
              /\ ~(Flow(c).retries_pets = 1 /\ Flow(c).pets_present # "undefined")
         /\ Flow(c)'.retries_permission <= 1
         /\ Flow(c)'.retries_pets <= 1]_vars

\* C2: for every call postMaintenanceEvent is invoked at most once, and only by
\* the completion of a pets_present step whose answer has been stored.
C2_AtMostOneTicketPerCall ==
  [][\A c \in Calls :
       /\ nTickets'[c] <= 1
       /\ posted'[c] # <<>> =>
            \E k \in BagToSet(pending[c]) :
              /\ ResumeGoodbye(c, k)
              /\ flows[c][k.flow].pets_present # "undefined"]_vars

\* ------------------------------------------------- issue text and the ticket
RECURSIVE SpaceJoin(_)
SpaceJoin(chunks) ==
  IF chunks = <<>> THEN <<>>
  ELSE IF Len(chunks) = 1 THEN chunks[1]
  ELSE SpaceJoin(SubSeq(chunks, 1, Len(chunks) - 1)) \o <<" ">> \o chunks[Len(chunks)]

TimerFires(c) ==
  \E k \in FlowsOf(c) : FinalizeTimerFire(c, k) \/ MaxTimerFire(c, k)

Listening(f) == f.step = "issue_description" /\ f.issueListeningActive

\* the flow object k of c is still referenced after the step
Kept(c, k) == flows'[c][k].step # "unreachable"

\* C8: in issue_description a non-empty chunk that equals the last accepted chunk
\* and arrives less than 800 ms after it leaves the buffer unchanged; every
\* other non-empty chunk is appended after a single space; the buffer always is
\* the accepted chunks joined by single spaces in arrival order.
C8_BufferIsJoinedChunks ==
  [][\A c \in Calls :
       /\ \A k \in FlowsOf(c) : flows[c][k].issueBuffer = SpaceJoin(flows[c][k].accepted)
       /\ \A s \in SessionsOf(c) : \A t \in Transcripts :
            (DgMessage(c, s, t) /\ ToFlow(c, s) /\ Flow(c).step = "issue_description") =>
              LET f == Flow(c)
                  g == Flow(c)'
                  chunk == normalizeIssueText(t)
                  n == Len(f.accepted)
              IN IF chunk = <<>>
                 THEN g = f
                 ELSE IF n > 0 /\ chunk = f.accepted[n]
                         /\ f.lastIssueChunkAge < ISSUE_APPEND_DEDUP_WINDOW_MS
                 THEN g = f
                 ELSE /\ g.accepted = Append(f.accepted, chunk)
                      /\ g.issueBuffer = IF f.issueBuffer = <<>> THEN chunk
                                         ELSE f.issueBuffer \o <<" ">> \o chunk]_vars

\* C8 witness: the same chunk was heard three times: accepted, dropped inside
\* the window, and accepted again once the window had passed.
C8_RepeatAfterWindow ==
  \E c \in Calls :
    /\ env = Hangup
    /\ Registered(c)
    /\ Flow(c).step = "issue_description"
    /\ Flow(c).accepted = <<normalizeIssueText(T_leak), normalizeIssueText(T_leak)>>
    /\ Flow(c).issueBuffer = normalizeIssueText(T_leak) \o <<" ">> \o normalizeIssueText(T_leak)
    /\ nMsgs[c] = 4

\* C7: a finalize or max-listen timer that fires while the call's flow is
\* listening finalizes it: the issue is stored, listening ends, both timers are
\* cleared and a prompt is spoken; the finalize timer is armed at 2000 ms by every
\* accepted chunk. A timer that fires on a flow that is no longer listening
\* changes neither the stored issue, the emergency flag nor the step, speaks
\* nothing and suspends no handler; a stored issue is never replaced.
C7_FinalizeOnce ==
  [][\A c \in Calls :
       /\ (TimerFires(c) /\ Registered(c) /\ Listening(Flow(c))) =>
            /\ Flow(c)'.issue_description = normalizeIssueText(Flow(c).issueBuffer)
            /\ ~Flow(c)'.issueListeningActive
            /\ Flow(c)'.issueFinalizeTimer = NoTimer
            /\ Flow(c)'.issueMaxTimer = NoTimer
            /\ said'[c] # <<>>
       /\ (TimerFires(c) /\ Registered(c) /\ ~Listening(Flow(c))) =>
            /\ Flow(c)'.issue_description = Flow(c).issue_description
            /\ Flow(c)'.is_emergency = Flow(c).is_emergency
            /\ Flow(c)'.step = Flow(c).step
            /\ said'[c] = <<>>
            /\ pending' = pending
       /\ \A k \in FlowsOf(c) :
            /\ (Kept(c, k) /\ flows[c][k].issue_description # Undefined) =>
                 flows'[c][k].issue_description = flows[c][k].issue_description
            /\ (Kept(c, k) /\ Len(flows'[c][k].accepted) > Len(flows[c][k].accepted)) =>
                 flows'[c][k].issueFinalizeTimer = ISSUE_SILENCE_FINALIZE_MS]_vars

\* C7 witness: after the issue was finalized as an emergency, a chunk that came
\* during the acknowledgment re-armed both timers and the finalize timer has
\* fired without effect: it is spent while the max-listen timer still runs.
C7_StaleTimerFired ==
  \E c \in Calls :
    /\ Registered(c)
    /\ Flow(c).issue_description # Undefined
    /\ Flow(c).issueFinalizeTimer = NoTimer
    /\ Flow(c).issueMaxTimer = ISSUE_MAX_LISTEN_MS - ISSUE_SILENCE_FINALIZE_MS

\* the resolution of a yes/no step by transcript t with r retries used
Resolves(t, r) == ~(parseYesNo(t) = "null" /\ r < 1)

\* C3: the unit answer is stored trimmed, the stored issue is the accepted
\* chunks joined, is_emergency tells whether an emergency keyword is a substring
\* of the normalized issue, the yes/no answers are stored as parsed; a stored
\* field keeps its value (pets_present until the flow completes); the ticket
\* carries exactly the stored fields and a flow submits exactly one ticket.
C3_TicketCarriesAnswers ==
  [][\A c \in Calls :
       /\ \A s \in SessionsOf(c) : \A t \in Transcripts :
            (DgMessage(c, s, t) /\ ToFlow(c, s)) =>
              /\ Flow(c).step = "unit_number" => Flow(c)'.unit_number = trim(t)
              /\ (Flow(c).step = "permission_to_enter"
                   /\ Resolves(t, Flow(c).retries_permission)) =>
                     Flow(c)'.permission_to_enter = parseYesNo(t)
              /\ (Flow(c).step = "pets_present" /\ Resolves(t, Flow(c).retries_pets)) =>
                     Flow(c)'.pets_present = parseYesNo(t)
       /\ (TimerFires(c) /\ Registered(c) /\ Listening(Flow(c))) =>
            /\ Flow(c)'.issue_description = SpaceJoin(Flow(c).accepted)
            /\ Flow(c)'.is_emergency = "true" <=>
                 \E kw \in EmergencyKeywords :
                   includes(normalizeText(SpaceJoin(Flow(c).accepted)), normalizeText(kw))
       /\ \A k \in FlowsOf(c) :
            LET f == flows[c][k]
                g == flows'[c][k]
            IN Kept(c, k) =>
                 /\ f.unit_number # Undefined => g.unit_number = f.unit_number
                 /\ f.issue_description # Undefined =>
                      (g.issue_description = f.issue_description
                       /\ g.is_emergency = f.is_emergency)
                 /\ f.permission_to_enter # "undefined" =>
                      g.permission_to_enter = f.permission_to_enter
                 /\ (f.pets_present # "undefined" /\ g.pets_present # f.pets_present) =>
                      (f.step = "pets_present" /\ nMsgs'[c] = nMsgs[c] + 1)
       /\ \A x \in BagToSet(pending[c]) :
            ResumeGoodbye(c, x) =>
              LET f == flows[c][x.flow] IN
              /\ flows'[c][x.flow].step \in {"complete", "unreachable"}
              /\ IF f.ingested THEN posted'[c] = <<>>
                 ELSE /\ Len(posted'[c]) = 1
                      /\ posted'[c][1].unit_number = f.unit_number
                      /\ posted'[c][1].issue_description = f.issue_description
                      /\ posted'[c][1].is_emergency = (f.is_emergency = "true")
                      /\ posted'[c][1].permission_to_enter = f.permission_to_enter
                      /\ posted'[c][1].pets_present = f.pets_present
       /\ (Registered(c) /\ Flow(c).step = "complete") => Flow(c).ingested
       /\ nAnswers[c] <= 1 => nTickets[c] <= 1
       /\ (Registered(c) /\ Flow(c).ingested) => nTickets[c] >= 1]_vars

\* C3 witness: the answers " 204", "Water  leak", "Yes." and "no" have produced
\* the one ticket of the call: unit 204, issue "Water leak", emergency,
\* permission granted, no pets.
C3_TicketOfTheExample ==
  \E c \in Calls :
    /\ nTickets[c] = 1
    /\ posted[c] = << [ unit_number |-> <<"2", "0", "4">>,
                        issue_description |-> normalizeIssueText(T_leak),
                        is_emergency |-> TRUE,
                        permission_to_enter |-> "true",
                        pets_present |-> "false" ] >>

\* C11: a call has at most one reply timer, the one its registry entry holds.
\* scheduleSilenceTimer for a call whose timer is pending changes nothing: the
\* pending deadline is neither replaced nor extended, also when the handler of
\* a redelivered call.answered reaches it; cancelSilenceTimer for a call with
\* no timer changes nothing, also when call.hangup reaches it.
C11_OneReplyTimer ==
  [][\A c \in Calls :
       /\ silenceTimers[c] # NoTimer =>
            scheduleSilenceTimer(silenceTimers, c) = silenceTimers
       /\ silenceTimers[c] = NoTimer =>
            cancelSilenceTimer(silenceTimers, c) = silenceTimers
       /\ (variant = "faq" /\ silenceTimers[c] # NoTimer /\ ResumeGreeting(c)) =>
            silenceTimers' = silenceTimers
       /\ (silenceTimers[c] = NoTimer /\ CallHangup(c)) =>
            silenceTimers' = silenceTimers]_vars

\* C11 witness: the reply timer of a call is 9000 ms old and still pending
\* while the handler of a redelivered call.answered is about to schedule it.
C11_ScheduleWhilePending ==
  \E c \in Calls :
    /\ variant = "faq"
    /\ silenceTimers[c] = 0
    /\ nAnswers[c] = 2
    /\ BagIn(Cont("handleTelnyxEvent", "greeting", 0), pending[c])

\* C13: a reply timer is armed with 9000 ms; it fires when they have elapsed
\* and not before, and time does not pass beyond its deadline while it is
\* pending. Firing first removes its registry entry, so it cannot fire again,
\* and issues exactly one reprompt speak action; nothing else speaks the
\* reprompt. However the speak action settles, the step is the same: the timer
\* is not re-armed and no handler is left waiting to repeat the action.
C13_ReplyTimerFiresOnce ==
  [][\A c \in Calls :
       /\ (silenceTimers[c] = NoTimer /\ silenceTimers'[c] # NoTimer) =>
            silenceTimers'[c] = SILENCE_REPROMPT_MS
       /\ silenceTimers[c] = 0 => silenceTimers'[c] \in {0, NoTimer}
       /\ silenceTimers[c] > 0 => silenceTimers'[c] \in 0..silenceTimers[c] \cup {NoTimer}
       /\ \A ok \in BOOLEAN :
            SilenceFires(c, ok) =>
              /\ silenceTimers[c] = 0
              /\ silenceTimers'[c] = NoTimer
              /\ said'[c] = <<"reprompt">>
              /\ pending' = pending
       /\ (\E i \in 1..Len(said'[c]) : said'[c][i] = "reprompt") =>
            (silenceTimers[c] = 0 /\ silenceTimers'[c] = NoTimer)]_vars

\* C13 witness: the reply timer of a call has fired: the reprompt has just
\* been spoken and the call has no reply timer.
C13_RepromptSpoken ==
  \E c \in Calls : said[c] = <<"reprompt">> /\ silenceTimers[c] = NoTimer

\* C18: a speak action that fails leaves the call where a delivered one would:
\* for every handler suspended at a speak action, the step it takes when the
\* action has failed is the step it takes when the action has succeeded (same
\* FlowState step, fields, retry counters and timers, same ticket submitted or
\* not, same next prompt), and the same holds for the reprompt of the reply
\* timer. The failed action is therefore not issued again.
C18_FailureLeavesProgress ==
  [][\A c \in Calls :
       /\ GreetingReturns(c, FALSE) => GreetingReturns(c, TRUE)
       /\ SilenceFires(c, FALSE) => SilenceFires(c, TRUE)
       /\ \A k \in BagToSet(pending[c]) :
            /\ TailReturns(c, k, FALSE) => TailReturns(c, k, TRUE)
            /\ EmergencyAckReturns(c, k, FALSE) => EmergencyAckReturns(c, k, TRUE)
            /\ ConfirmationReturns(c, k, FALSE) => ConfirmationReturns(c, k, TRUE)
            /\ GoodbyeReturns(c, k, FALSE) =>
                 /\ GoodbyeReturns(c, k, TRUE)
                 /\ flows'[c][k.flow].step \in {"complete", "unreachable"}
                 /\ nTickets'[c] >= 1]_vars

\* C18 witness: the handler that waited for the emergency acknowledgment has
\* just gone on to ask the permission question.
C18_WentOnAfterSpeak ==
  \E c \in Calls :
    /\ BagIn(Cont("finalizeIssue", "tail", 0), pending[c])
    /\ Registered(c) /\ Flow(c).step = "permission_to_enter"
    /\ Flow(c).is_emergency = "true"
    /\ said[c] = <<"permission_prompt">>

\* C19: when call.hangup or the close of the telephony channel tears down the
\* registered session of a call, both channel handles of that session are
\* closed: right after the step neither the telephony audio channel nor the
\* transcription connection is open, and a transcription connection that was
\* still connecting at teardown does not open afterwards.
C19_TeardownClosesChannels ==
  [][\A c \in Calls : \A s \in SessionsOf(c) :
       /\ (sttSessions[c] = s /\ (CallHangup(c) \/ WsClose(c, s))) =>
            /\ sessions'[c][s].telnyxWs = "closed"
            /\ sessions'[c][s].deepgramWs \in {"CLOSING", "null"}
       /\ DgOpen(c, s) => sessions[c][s].telnyxWs = "open"]_vars

\* C20: the collected fields of a FlowState are append-only: once unit_number,
\* issue_description, is_emergency, permission_to_enter or pets_present holds
\* a captured value, no step of the same call (transcript, timer, lifecycle
\* event, resumed handler) changes or removes it on that FlowState, unless
\* the step is a retry of the question of that field.
C20_FieldsAppendOnly ==
  [][\A c \in Calls : \A k \in FlowsOf(c) :
       Kept(c, k) =>
         LET f == flows[c][k]
             g == flows'[c][k]
         IN /\ f.unit_number # Undefined => g.unit_number = f.unit_number
            /\ f.issue_description # Undefined =>
                 g.issue_description = f.issue_description
            /\ f.is_emergency # "undefined" => g.is_emergency = f.is_emergency
            /\ f.permission_to_enter # "undefined" =>
                 \/ g.permission_to_enter = f.permission_to_enter
                 \/ g.retries_permission > f.retries_permission
            /\ f.pets_present # "undefined" =>
                 \/ g.pets_present = f.pets_present
                 \/ g.retries_pets > f.retries_pets]_vars

\* the session has answered its question (FAQ-only build) or finished its
\* questionnaire (intake build): its message handler returns at its first line
Terminal(c, s) ==
  IF variant = "faq" THEN sessions[c][s].finalized ELSE sessions[c][s].flowComplete

\* C12 as stated: the handler of call.answered schedules the reply timer (in
\* the intake build the start of the questionnaire cancels it in the same
\* turn); a final transcription result with non-empty text, the start of the
\* questionnaire and call.hangup each leave the call without a reply timer;
\* only a timer that is still registered fires.
C12_CancelOnEveryResult ==
  [][\A c \in Calls :
       /\ GreetingReturns(c, TRUE) =>
            IF variant = "faq" THEN silenceTimers'[c] \in 0..SILENCE_REPROMPT_MS
            ELSE silenceTimers'[c] = NoTimer
       /\ \A s \in SessionsOf(c) : \A t \in env.alphabet :
            DgMessage(c, s, t) => silenceTimers'[c] = NoTimer
       /\ CallHangup(c) => silenceTimers'[c] = NoTimer
       /\ SilenceFire(c) => silenceTimers[c] = 0]_vars

\* C12 amended: as above, where the final transcription result arrives on a
\* session that has not yet answered its question (FAQ-only build) or finished
\* its questionnaire (intake build); a result on such a finished session is
\* ignored and leaves the reply timer as it was.
C12_CancelOnRecognizedResult ==
  [][\A c \in Calls :
       /\ GreetingReturns(c, TRUE) =>
            IF variant = "faq" THEN silenceTimers'[c] \in 0..SILENCE_REPROMPT_MS
            ELSE silenceTimers'[c] = NoTimer
       /\ \A s \in SessionsOf(c) : \A t \in env.alphabet :
            DgMessage(c, s, t) =>
              IF Terminal(c, s) THEN silenceTimers' = silenceTimers
              ELSE silenceTimers'[c] = NoTimer
       /\ CallHangup(c) => silenceTimers'[c] = NoTimer
       /\ SilenceFire(c) => silenceTimers[c] = 0]_vars

\* C12 witness: the first final result of a call has been answered on a
\* session that was not finished, and the call, whose greeting had armed the
\* reply timer, has no reply timer.
C12_CanceledByResult ==
  \E c \in Calls :
    /\ variant = "faq"
    /\ nAnswers[c] = 1 /\ pending[c] = EmptyBag
    /\ nMsgs[c] = 1
    /\ said[c] # <<>> /\ said[c] # <<"reprompt">>
    /\ silenceTimers[c] = NoTimer

\* what the FAQ handler speaks
FaqReplies ==
  {"callback_offer"} \cup {"faq_answer_" \o ToString(i) : i \in 1..Len(CatalogueFaqs)}

\* a final result with non-empty transcript text, as the specification has it
FinalWithText(m) == m.json = "object" /\ m.is_final /\ Len(m.transcript) > 0

\* C14: a transcription result is dispatched only if it is final and has
\* text. A message that is not (not JSON, null, interim, final without text)
\* changes no FlowState, registers none, speaks nothing, resumes or suspends
\* no handler and leaves the reply timer as it was. A final result with text,
\* on a session that still takes results, goes to handleFlowTranscript when
\* the call has a FlowState (the FlowState becomes what handleFlowTranscript
\* makes of it, its prompts are spoken and nothing of the FAQ handler is) and
\* to the FAQ handler otherwise (exactly its reply is spoken, no FlowState
\* changes).
C14_DispatchOnlyFinalText ==
  [][\A c \in Calls : \A s \in SessionsOf(c) : \A m \in Results :
       DgReceive(c, s, m) =>
         IF ~FinalWithText(m) \/ Terminal(c, s)
         THEN /\ flows' = flows /\ flowState' = flowState
              /\ said'[c] = <<>> /\ posted'[c] = <<>>
              /\ pending' = pending
              /\ silenceTimers' = silenceTimers
         ELSE IF Registered(c)
         THEN LET o == handleFlowTranscript(Flow(c), m.transcript) IN
              /\ flows'[c][flowState[c]] = o.flow
              /\ said'[c] = o.say
              /\ \A i \in 1..Len(said'[c]) : said'[c][i] \notin FaqReplies
         ELSE /\ said'[c] = <<faqReply(faqContext(c), m.transcript)>>
              /\ said'[c][1] \in FaqReplies
              /\ flows' = flows /\ flowState' = flowState
              /\ pending' = pending]_vars

\* C14 witness: the only session of a call has received a message and has
\* dropped it: it has not answered, its transcription connection is open and
\* the reply timer of the call is still pending.
C14_InterimIgnored ==
  \E c \in Calls :
    /\ variant = "faq"
    /\ Len(sessions[c]) = 1
    /\ sessions[c][1].deepgramWs = "OPEN" /\ ~sessions[c][1].finalized
    /\ nMsgs[c] = 1
    /\ silenceTimers[c] \in 0..SILENCE_REPROMPT_MS

\* C17: a malformed message on either channel (text that is not JSON, or the
\* JSON literal null) is dropped: its handler does not throw, no registry, no
\* session and no FlowState changes, nothing is spoken or forwarded, and no
\* handler is suspended or resumed, so that the next message of the session
\* finds the session as the malformed one found it.
C17_MalformedDropped ==
  [][\A c \in Calls : \A s \in SessionsOf(c) :
       /\ \A m \in {NoResult("invalid"), NoResult("null")} :
            DgReceive(c, s, m) =>
              /\ ~raised'[c]
              /\ said'[c] = <<>> /\ forwarded'[c] = <<>>
              /\ UNCHANGED <<silenceTimers, sttSessions, contextCache, flowState,
                             flows, sessions, pending>>
       /\ \A fr \in {NoFrame("invalid"), NoFrame("null")} :
            WsMessage(c, s, fr) =>
              /\ ~raised'[c]
              /\ said'[c] = <<>> /\ forwarded'[c] = <<>>
              /\ UNCHANGED <<silenceTimers, sttSessions, contextCache, flowState,
                             flows, sessions, pending>>]_vars

\* C15: a FlowState does not outlive its call. call.hangup removes the entries
\* of the call (C1); here: once call.hangup has been handled for a call, no
\* later step gives the call a FlowState entry or a cached context entry,
\* whichever handler of call.answered (context fetch, greeting, flow start) is
\* resumed after it.
C15_NoEntryAfterHangup ==
  [][\A c \in Calls :
       ended[c] =>
         /\ flowState[c] = 0 => flowState'[c] = 0
         /\ contextCache[c] = NoContext => contextCache'[c] = NoContext]_vars

\* the step is one of call a: an event, a connection, a message or a frame
\* for it, a handler of it that resumes, a timer of it that fires, a teardown
StepOf(a) ==
  \/ CallAnswered(a) \/ ResumeFetchGreeting(a) \/ ResumeGreeting(a)
  \/ CallHangup(a) \/ MediaConnect(a) \/ SilenceFire(a)
  \/ \E s \in SessionsOf(a) :
       \/ DgOpen(a, s) \/ DgClosed(a, s) \/ WsError(a, s) \/ WsClose(a, s)
       \/ \E m \in Results : DgReceive(a, s, m)
       \/ \E fr \in env.frames : WsMessage(a, s, fr)
  \/ \E k \in BagToSet(pending[a]) :
       \/ ResumeTail(a, k) \/ ResumeEmergencyAck(a, k)
       \/ ResumeConfirmation(a, k) \/ ResumeGoodbye(a, k)
  \/ \E k \in FlowsOf(a) : FinalizeTimerFire(a, k) \/ MaxTimerFire(a, k)

MediaWithPayload(fr) == fr.json = "object" /\ fr.event = "media" /\ Len(fr.payload) > 0

\* C21: a telephony frame is sent to the transcription connection only if it
\* is a media frame with a payload, the transcription connection of its
\* session is open and the session is not terminal; it is then sent once, as
\* the decoded payload, in the step that receives it, to the connection of its
\* own session. Every other frame is dropped: its handler returns, no registry,
\* session, FlowState, timer or suspended handler changes, and no other step
\* (no later frame, no opening connection) sends audio, so nothing is buffered.
C21_OnlyMediaForwarded ==
  [][\A c \in Calls :
       /\ forwarded'[c] # <<>> =>
            \E s \in SessionsOf(c) : \E fr \in env.frames :
              /\ WsMessage(c, s, fr)
              /\ MediaWithPayload(fr)
              /\ sessions[c][s].deepgramWs = "OPEN"
              /\ ~sessions[c][s].finalized
              /\ forwarded'[c] = <<[session |-> s, audio |-> base64Decode(fr.payload)]>>
       /\ \A s \in SessionsOf(c) : \A fr \in env.frames :
            (WsMessage(c, s, fr) /\ forwarded'[c] = <<>>) =>
              /\ ~raised'[c]
              /\ said'[c] = <<>> /\ posted'[c] = <<>>
              /\ UNCHANGED <<silenceTimers, sttSessions, contextCache, flowState,
                             flows, sessions, pending>>]_vars

\* C22: an audio connection that names no call, or that arrives in a process
\* without the transcription credential, is closed at once: the step creates no
\* session object (so no transcription connection is opened), registers none,
\* and leaves the session, flow, reply timer and context registries, every
\* FlowState and every suspended handler as they were.
C22_RefusedConnectionLeavesNoTrace ==
  [][\A id \in Calls \cup {NoCallId} :
       (wssConnection(id) /\ (id = NoCallId \/ ~env.credential)) =>
         /\ refused'
         /\ sessions' = sessions /\ sttSessions' = sttSessions
         /\ UNCHANGED <<contextCache, flowState, flows, silenceTimers, pending>>]_vars

\* C22 witness: in a process without the credential a call has been answered
\* and its questionnaire started; its audio connection has just been closed
\* and the call has no session.
C22_RefusedWhileCallRuns ==
  \E c \in Calls :
    /\ ~env.credential
    /\ refused
    /\ Registered(c)
    /\ sessions[c] = <<>> /\ sttSessions[c] = 0

\* C23: complete is terminal. The completion of the questionnaire sets the
\* step of its FlowState to complete and marks the registered session as
\* flow-complete. From then on a transcription result of the call (final or
\* not) on a session so marked, or on any session while the FlowState of the
\* call is complete, changes no FlowState and no flow registry entry, captures
\* no field, speaks nothing (so neither a prompt nor a reply of the FAQ
\* handler), suspends no handler and submits no ticket.
C23_CompleteIsTerminal ==
  [][\A c \in Calls :
       /\ \A k \in BagToSet(pending[c]) :
            GoodbyeReturns(c, k, TRUE) =>
              /\ flows'[c][k.flow].step \in {"complete", "unreachable"}
              /\ sttSessions[c] # 0 => sessions'[c][sttSessions[c]].flowComplete
       /\ \A s \in SessionsOf(c) : \A m \in Results :
            (/\ DgReceive(c, s, m)
             /\ variant = "intake"
             /\ \/ sessions[c][s].flowComplete
                \/ Registered(c) /\ Flow(c).step = "complete") =>
              /\ flows' = flows /\ flowState' = flowState
              /\ said'[c] = <<>>
              /\ posted'[c] = <<>> /\ nTickets' = nTickets
              /\ pending' = pending]_vars

\* C23 witness: the questionnaire of a call is complete, its ticket is
\* submitted and its session is marked; a fifth result has arrived on that
\* session after the mark (the session counted four) and nothing was spoken.
C23_ResultAfterComplete ==
  \E c \in Calls :
    /\ Registered(c) /\ Flow(c).step = "complete"
    /\ nTickets[c] = 1
    /\ Len(sessions[c]) = 1 /\ sessions[c][1].flowComplete
    /\ sessions[c][1].sttFinalCount = 4
    /\ nMsgs[c] = 5
    /\ said[c] = <<>>

\* finalizeIssue takes effect for c in this step: one of its timers fires
\* while the registered FlowState is listening
FinalizeTakesEffect(c) == TimerFires(c) /\ Registered(c) /\ Listening(Flow(c))

\* C24: when finalizeIssue takes effect it stores the normalized buffer as the
\* issue and the emergency boolean; it speaks the emergency acknowledgment if
\* and only if the stored flag is true and nothing else speaks it; the
\* permission question follows in every case and the step becomes
\* permission_to_enter with it: at once when there is no acknowledgment,
\* otherwise when the acknowledgment has returned, so never before it. This
\* happens once per call: not again for a call whose questionnaire has already
\* gone past the issue and submitted its ticket.
C24_FinalizeSpeaksOnce ==
  [][\A c \in Calls :
       /\ FinalizeTakesEffect(c) =>
            LET f == Flow(c)
                g == Flow(c)'
                urgent == \E kw \in EmergencyKeywords :
                            includes(normalizeText(f.issueBuffer), normalizeText(kw))
            IN /\ g.issue_description = normalizeIssueText(f.issueBuffer)
               /\ g.is_emergency = IF urgent THEN "true" ELSE "false"
               /\ IF urgent
                  THEN /\ said'[c] = <<"emergency_ack">>
                       /\ g.step = "issue_description"
                       /\ BagIn(Cont("finalizeIssue", "emergency_ack", flowState[c]),
                                pending'[c])
                  ELSE /\ said'[c] = <<"permission_prompt">>
                       /\ g.step = "permission_to_enter"
               /\ nTickets[c] = 0
       /\ (\E i \in 1..Len(said'[c]) : said'[c][i] = "emergency_ack") =>
            (FinalizeTakesEffect(c) /\ Flow(c)'.is_emergency = "true")
       /\ \A k \in BagToSet(pending[c]) : \A ok \in BOOLEAN :
            EmergencyAckReturns(c, k, ok) =>
              /\ said'[c] = <<"permission_prompt">>
              /\ flows'[c][k.flow].step \in {"permission_to_enter", "unreachable"}
              /\ ~BagIn(k, pending'[c])]_vars

\* the FlowState objects of c that hold a pending max-listen (finalize) timer
MaxTimersOf(c) == {k \in FlowsOf(c) : flows[c][k].issueMaxTimer # NoTimer}
FinalizeTimersOf(c) == {k \in FlowsOf(c) : flows[c][k].issueFinalizeTimer # NoTimer}

\* C25: a final transcript that reaches the flow in unit_number is stored
\* trimmed as the unit number, whatever it is, and the step becomes
\* issue_description; the accumulation sub-state is then reset (empty buffer,
\* no last chunk, listening active), the issue prompt is spoken, and the call
\* has exactly one pending max-listen timer, set to 20000 ms, and no pending
\* finalize timer.
C25_UnitStepEntersListening ==
  [][\A c \in Calls : \A s \in SessionsOf(c) : \A t \in Transcripts :
       (DgMessage(c, s, t) /\ ToFlow(c, s) /\ Flow(c).step = "unit_number") =>
         /\ Flow(c)'.unit_number = trim(t)
         /\ Flow(c)'.step = "issue_description"
         /\ Flow(c)'.issueBuffer = <<>> /\ Flow(c)'.lastIssueChunk = <<>>
         /\ Flow(c)'.issueListeningActive
         /\ Flow(c)'.issueMaxTimer = ISSUE_MAX_LISTEN_MS
         /\ Flow(c)'.issueFinalizeTimer = NoTimer
         /\ said'[c] = <<"issue_prompt">>
         /\ MaxTimersOf(c)' = {flowState[c]}
         /\ FinalizeTimersOf(c)' = {}]_vars

\* the transcript is accepted as a chunk by the listening FlowState of c
ChunkAccepted(c, s, t) ==
  /\ DgMessage(c, s, t) /\ ToFlow(c, s)
  /\ Flow(c).step = "issue_description"
  /\ Len(Flow(c)'.accepted) > Len(Flow(c).accepted)

\* C26: every accepted chunk leaves the finalize timer at 2000 ms and the
\* max-listen timer at 20000 ms, whatever they were before, so both count from
\* that chunk; and a listening FlowState is finalized only when one of these
\* two timers has run out, that is 2000 ms after its last accepted chunk at
\* the earliest: while chunks keep arriving sooner it is not finalized.
C26_ChunkReArmsBothTimers ==
  [][\A c \in Calls :
       /\ \A s \in SessionsOf(c) : \A t \in Transcripts :
            ChunkAccepted(c, s, t) =>
              /\ Flow(c)'.issueFinalizeTimer = ISSUE_SILENCE_FINALIZE_MS
              /\ Flow(c)'.issueMaxTimer = ISSUE_MAX_LISTEN_MS
       /\ (FinalizeTakesEffect(c) /\ Flow(c).accepted # <<>>) =>
            (Flow(c).issueFinalizeTimer = 0 \/ Flow(c).issueMaxTimer = 0)]_vars

\* the FAQ handler takes the utterance of this step: a final result with text
\* on a session that still takes results, of a call without a FlowState
FaqDispatch(c, s, m) ==
  /\ DgReceive(c, s, m)
  /\ FinalWithText(m)
  /\ ~Terminal(c, s)
  /\ ~Registered(c)

\* what the FAQ handler speaks when it answers with the entries that pass `fits`
FaqSpeaks(c, m, fits(_)) ==
  LET faqs == FaqsOf(faqContext(c))
      match == findFaqMatch(m.transcript, faqs)
  IN IF match # 0 /\ fits(faqs[match].answer)
     THEN <<"faq_answer_" \o ToString(match)>>
     ELSE <<"callback_offer">>

\* an answer that is non-empty and at most 280 characters long, as it is stored
FitsAsStored(answer) == Len(answer) > 0 /\ Len(answer) <= 280

\* an answer that is non-empty and at most 280 characters long once the
\* whitespace around it is taken off
FitsTrimmed(answer) ==
  \E i, j \in 1..Len(answer) :
    /\ i <= j /\ j - i < 280
    /\ answer[i] \notin WhiteSpace /\ answer[j] \notin WhiteSpace
    /\ \A k \in 1..Len(answer) : (k < i \/ k > j) => answer[k] \in WhiteSpace

\* C27 as stated: every utterance dispatched to the FAQ handler produces
\* exactly one speak action, the answer of the matched entry when there is a
\* match whose answer is non-empty and at most 280 characters long, and the
\* callback offer in every other case.
C27_AnswerFitsAsStored ==
  [][\A c \in Calls : \A s \in SessionsOf(c) : \A m \in Results :
       FaqDispatch(c, s, m) => said'[c] = FaqSpeaks(c, m, FitsAsStored)]_vars

\* C27 amended: every utterance dispatched to the FAQ handler produces exactly
\* one speak action, the answer of the matched entry when there is a match
\* whose answer, trimmed of surrounding whitespace, is non-empty and at most
\* 280 characters long, and the callback offer in every other case.
C27_AnswerFitsTrimmed ==
  [][\A c \in Calls : \A s \in SessionsOf(c) : \A m \in Results :
       FaqDispatch(c, s, m) => said'[c] = FaqSpeaks(c, m, FitsTrimmed)]_vars

\* C27 witness: the caller of the FAQ-only build has asked for the gym and has
\* heard the answer of that entry, which is 281 characters long as stored and
\* 279 without the spaces after it.
C27_PaddedAnswerSpoken ==
  \E c \in Calls :
    /\ variant = "faq" /\ contextCache[c] = "catalogue"
    /\ Len(CatalogueFaqs[6].answer) > 280
    /\ said[c] = <<"faq_answer_6">>

\* `sub` occurs in `t` as a run of consecutive characters
IsSubstring(sub, t) ==
  \E before \in 0..Len(t) :
    /\ before + Len(sub) <= Len(t)
    /\ \A k \in 1..Len(sub) : t[before + k] = sub[k]

\* the score of an entry as the specification gives it: 5 for the normalized
\* question being a substring of the normalized transcript, otherwise 1 per
\* question token in the transcript's token set, plus 2 per keyword that is a
\* substring
ScoreAsStated(faq, normTranscript) ==
  LET question == normalizeText(faq.question)
      tokens == wordList(question)
  IN (IF IsSubstring(question, normTranscript) THEN 5
      ELSE Cardinality({i \in 1..Len(tokens) : tokens[i] \in words(normTranscript)}))
     + 2 * Cardinality({i \in 1..Len(faq.keywords) :
                          IsSubstring(normalizeText(faq.keywords[i]), normTranscript)})

\* the same score when a question and a keyword count as a substring only if
\* their normalized text is not empty
ScoreOfPresent(faq, normTranscript) ==
  LET question == normalizeText(faq.question)
      tokens == wordList(question)
  IN (IF question # <<>> /\ IsSubstring(question, normTranscript) THEN 5
      ELSE Cardinality({i \in 1..Len(tokens) : tokens[i] \in words(normTranscript)}))
     + 2 * Cardinality({i \in 1..Len(faq.keywords) :
                          /\ normalizeText(faq.keywords[i]) # <<>>
                          /\ IsSubstring(normalizeText(faq.keywords[i]), normTranscript)})

\* the first entry of the highest score, 0 when that score is below 3 or the
\* transcript or the list is empty
FirstOfHighest(transcript, faqs, Score(_, _)) ==
  IF transcript = <<>> \/ faqs = <<>> THEN 0
  ELSE LET normTranscript == normalizeText(transcript)
           top == CHOOSE i \in 1..Len(faqs) :
                    \A j \in 1..Len(faqs) :
                      \/ Score(faqs[j], normTranscript) < Score(faqs[i], normTranscript)
                      \/ /\ Score(faqs[j], normTranscript) = Score(faqs[i], normTranscript)
                         /\ i <= j
       IN IF Score(faqs[top], normTranscript) < 3 THEN 0 ELSE top

\* C28 as stated: for every utterance the FAQ handler takes, findFaqMatch
\* returns the first entry in input order of the highest score (5 for the
\* normalized question being a substring of the normalized transcript,
\* otherwise 1 per question token in the transcript's token set, plus 2 per
\* keyword that is a substring), and no match when that score is below 3, the
\* transcript is empty or the FAQ list is empty.
C28_HighestScoreAsStated ==
  [][\A c \in Calls : \A s \in SessionsOf(c) : \A m \in Results :
       FaqDispatch(c, s, m) =>
         LET faqs == FaqsOf(faqContext(c)) IN
         findFaqMatch(m.transcript, faqs) = FirstOfHighest(m.transcript, faqs, ScoreAsStated)]_vars

\* C28 amended: the same with a score in which a question and a keyword count
\* as a substring only if their normalized text is not empty; an answer that is
\* spoken is the answer of that entry.
C28_HighestScoreOfPresent ==
  [][\A c \in Calls : \A s \in SessionsOf(c) : \A m \in Results :
       FaqDispatch(c, s, m) =>
         LET faqs == FaqsOf(faqContext(c))
             first == FirstOfHighest(m.transcript, faqs, ScoreOfPresent)
         IN /\ findFaqMatch(m.transcript, faqs) = first
            /\ said'[c] # <<"callback_offer">> =>
                 said'[c] = <<"faq_answer_" \o ToString(first)>>]_vars

\* C28 witness: the caller has asked a question on which the first two entries
\* of the list score the same, above every other entry, and has heard the
\* answer of the first.
C28_TieGoesToFirst ==
  \E c \in Calls :
    /\ contextCache[c] = "catalogue"
    /\ \E t \in env.alphabet :
         LET n == normalizeText(t) IN
         /\ faqScore(CatalogueFaqs[1], n) = faqScore(CatalogueFaqs[2], n)
         /\ faqScore(CatalogueFaqs[1], n) >= 3
         /\ \A i \in 3..Len(CatalogueFaqs) :
              faqScore(CatalogueFaqs[i], n) < faqScore(CatalogueFaqs[1], n)
    /\ said[c] = <<"faq_answer_1">>

\* C29: in the intake build the running count of a session goes up by one with
\* every final transcript (a final result with non-empty text) that arrives on
\* its transcription connection and stays as it is with every other message:
\* an interim result, a result with empty text, a message that does not parse.
C29_CountsFinalTranscripts ==
  [][\A c \in Calls : \A s \in SessionsOf(c) : \A m \in Results :
       (variant = "intake" /\ DgReceive(c, s, m)) =>
         sessions'[c][s].sttFinalCount =
           sessions[c][s].sttFinalCount + (IF FinalWithText(m) THEN 1 ELSE 0)]_vars

\* C30: in the FAQ-only build a result is dispatched to the FAQ handler only
\* on a session whose flag is not set, and the step that dispatches it sets
\* the flag and closes the transcription connection; the flag stays set as
\* long as the session can receive anything; a transcription result and a
\* telephony frame that arrive on a session whose flag is set are ignored:
\* nothing is spoken, posted or forwarded, nothing throws, and no registry,
\* session, timer or suspended handler changes. So at most one final
\* transcript of a session is ever dispatched.
C30_FlagStopsSecondDispatch ==
  [][variant = "faq" =>
       \A c \in Calls : \A s \in SessionsOf(c) :
         /\ \A m \in Results :
              DgReceive(c, s, m) =>
                IF sessions[c][s].finalized
                THEN /\ said'[c] = <<>> /\ posted'[c] = <<>>
                     /\ UNCHANGED <<silenceTimers, sttSessions, contextCache,
                                    flowState, flows, sessions, pending>>
                ELSE said'[c] # <<>> =>
                       /\ FinalWithText(m)
                       /\ Len(said'[c]) = 1
                       /\ sessions'[c][s].finalized
                       /\ sessions'[c][s].deepgramWs = "CLOSING"
         /\ \A fr \in env.frames :
              (WsMessage(c, s, fr) /\ sessions[c][s].finalized) =>
                /\ forwarded'[c] = <<>> /\ ~raised'[c]
                /\ UNCHANGED <<silenceTimers, sttSessions, contextCache,
                               flowState, flows, sessions, pending>>
         /\ sessions[c][s].finalized =>
              \/ sessions'[c][s].finalized
              \/ sessions'[c][s] = DeadSession]_vars

\* C30 witness: the only session a call of the FAQ-only build has had has
\* received two final transcripts and nothing else; its flag is set and the
\* second transcript has been ignored.
C30_SecondTranscriptIgnored ==
  \E c \in Calls :
    /\ variant = "faq" /\ env.noise = {}
    /\ Len(sessions[c]) = 1
    /\ sessions[c][1].finalized
    /\ nMsgs[c] = 2
    /\ said[c] = <<>>

\* C31: a FlowState that is listening and has accepted no chunk is finalized
\* only when its max-listen timer, armed with 20000 ms when the step was
\* entered, has run out; finalizeIssue then stores the empty issue and the flag
\* false, speaks the permission question and moves to permission_to_enter;
\* whatever the text, a finalization ends listening and never repeats the
\* issue prompt.
C31_EmptyIssueAfterMaxListen ==
  [][\A c \in Calls :
       /\ (FinalizeTakesEffect(c) /\ Flow(c).accepted = <<>>) =>
            /\ Flow(c).issueMaxTimer = 0
            /\ Flow(c)'.issue_description = <<>>
            /\ Flow(c)'.is_emergency = "false"
            /\ Flow(c)'.step = "permission_to_enter"
            /\ said'[c] = <<"permission_prompt">>
       /\ FinalizeTakesEffect(c) =>
            /\ ~Listening(Flow(c)')
            /\ Flow(c)'.issue_description # Undefined
            /\ \A i \in 1..Len(said'[c]) : said'[c][i] # "issue_prompt"]_vars

\* C32: a FlowState whose step is past issue_description holds as its issue
\* the whitespace-normalized accumulation buffer, and once an issue has been
\* stored no chunk is accepted into the buffer any more, also not while
\* finalizeIssue is suspended on the emergency acknowledgment.
C32_StoredIssueIsBuffer ==
  [][\A c \in Calls : \A k \in FlowsOf(c) :
       /\ flows[c][k].step \in {"permission_to_enter", "pets_present", "complete"} =>
            flows[c][k].issue_description = normalizeIssueText(flows[c][k].issueBuffer)
       /\ (flows[c][k].issue_description # Undefined /\ Kept(c, k)) =>
            /\ flows'[c][k].accepted = flows[c][k].accepted
            /\ flows'[c][k].issueBuffer = flows[c][k].issueBuffer]_vars

\* the step speaks the line
Speaks(c, line) == \E i \in 1..Len(said'[c]) : said'[c][i] = line

\* the confirmation line has been spoken on a FlowState of c: it is spoken in
\* the turn that stores the pets answer
ConfirmationSpoken(c) == \E k \in FlowsOf(c) : flows[c][k].pets_present # "undefined"

\* the goodbye line has been spoken on a FlowState of c: its speak action is
\* outstanding, or it has returned and the questionnaire is complete
GoodbyeSpoken(c) ==
  \/ \E x \in BagToSet(pending[c]) : x.pc = "goodbye"
  \/ \E k \in FlowsOf(c) : flows[c][k].step = "complete"

\* C33: the confirmation line and the goodbye line are spoken at most once for
\* a call, and no yes/no question is spoken once the goodbye line has been,
\* whatever final transcripts arrive while the completion is suspended on its
\* speak actions.
C33_ClosingLinesOnce ==
  [][\A c \in Calls :
       /\ Speaks(c, "confirmation") => ~ConfirmationSpoken(c)
       /\ Speaks(c, "goodbye") => ~GoodbyeSpoken(c)
       /\ (Speaks(c, "permission_prompt") \/ Speaks(c, "pets_prompt")) =>
            ~GoodbyeSpoken(c)]_vars

\* session s of c belongs to an audio connection that a newer one has
\* superseded: its channel is open and the registry holds a later session
Superseded(c, s) ==
  sessions[c][s].telnyxWs = "open" /\ sttSessions[c] # 0 /\ s < sttSessions[c]

\* C34: a close or an error of a superseded audio connection leaves the newer
\* session in the registry, leaves the transcription connection of the newer
\* session as it is, and leaves the FlowState and the cached context of the
\* call in their registries.
C34_SupersededCloseSparesNewer ==
  [][\A c \in Calls : \A s \in SessionsOf(c) :
       (Superseded(c, s) /\ (WsClose(c, s) \/ WsError(c, s))) =>
         /\ sttSessions'[c] = sttSessions[c]
         /\ sessions'[c][sttSessions[c]].deepgramWs =
              sessions[c][sttSessions[c]].deepgramWs
         /\ flowState'[c] = flowState[c]
         /\ contextCache'[c] = contextCache[c]]_vars

\* session s of c has been torn down: cleanupStt has taken it out of the
\* registry and has closed its transcription connection, which has not yet
\* reported the close
TornDown(c, s) ==
  /\ sttSessions[c] # s
  /\ sessions[c][s].deepgramWs = "CLOSING"
  /\ ~sessions[c][s].finalized

\* C35: a transcription result that is delivered on the transcription
\* connection of a session that has been torn down is not dispatched: no
\* FlowState changes, no handler is started and nothing is spoken for the call.
C35_NoDispatchAfterTeardown ==
  [][\A c \in Calls : \A s \in SessionsOf(c) : \A m \in Results :
       (TornDown(c, s) /\ DgReceive(c, s, m)) =>
         /\ said'[c] = <<>>
         /\ flows'[c] = flows[c]
         /\ pending'[c] = pending[c]]_vars

\* C36: once call.hangup has been handled for a call, no reply timer is
\* pending for it in any later state and the reprompt is never spoken for it,
\* also when the hangup was handled while the handler of call.answered was
\* waiting for the context fetch or for the greeting.
C36_NoReplyTimerAfterHangup ==
  [][\A c \in Calls :
       ended[c] => /\ silenceTimers[c] = NoTimer
                   /\ silenceTimers'[c] = NoTimer
                   /\ ~Speaks(c, "reprompt")]_vars

\* C37: in the questionnaire build the turn in which the greeting returns
\* arms the reply timer and starts the flow, which cancels it: that turn ends
\* with a registered FlowState, the unit question spoken and no reply timer;
\* no step leaves a reply timer pending and no step speaks the reprompt.
C37_ReplyTimerCanceledAtFlowStart ==
  [][variant = "intake" =>
       \A c \in Calls :
         /\ silenceTimers'[c] = NoTimer
         /\ ~Speaks(c, "reprompt")
         /\ \A ok \in BOOLEAN :
              GreetingReturns(c, ok) =>
                /\ flowState'[c] # 0
                /\ flows'[c][flowState'[c]] = NewFlow
                /\ said'[c] = <<"unit_prompt">>]_vars

\* C37 witness: the questionnaire of a call has started: the greeting has
\* returned, the unit question is being spoken, and no reply timer is pending
\* although the greeting's turn scheduled one.
C37_FlowStartedWithoutTimer ==
  \E c \in Calls :
    /\ variant = "intake"
    /\ Registered(c) /\ Flow(c) = NewFlow
    /\ said[c] = <<"unit_prompt">>
    /\ scheduleSilenceTimer(silenceTimers, c)[c] = SILENCE_REPROMPT_MS
    /\ silenceTimers[c] = NoTimer

\* C38: a listening FlowState that has accepted at least one chunk is
\* finalized by a finalize timer and never by a max-listen timer: a max-listen
\* timer finalizes only a FlowState that has accepted no chunk.
C38_MaxListenOnlyWithoutChunk ==
  [][\A c \in Calls :
       (FinalizeTakesEffect(c) /\ Flow(c).accepted # <<>>) =>
         /\ \E k \in FlowsOf(c) : FinalizeTimerFire(c, k)
         /\ \A k \in FlowsOf(c) : ~MaxTimerFire(c, k)]_vars

\* C39: in every state a call has at most one pending finalize timer and at
\* most one pending max-listen timer; a FlowState holds both only while its
\* step is issue_description; a call without a registered FlowState has none.
C39_OneTimerOfEachKind ==
  \A c \in Calls :
    /\ Cardinality(FinalizeTimersOf(c)) <= 1
    /\ Cardinality(MaxTimersOf(c)) <= 1
    /\ \A k \in FinalizeTimersOf(c) \cap MaxTimersOf(c) :
         flows[c][k].step = "issue_description"
    /\ ~Registered(c) => (FinalizeTimersOf(c) = {} /\ MaxTimersOf(c) = {})

====
